---------------------------- MODULE Spec2Model ----------------------------
(***************************************************************************)
(* Clarifying-questions server: the session store (session-manager.ts),    *)
(* the question extractor (question-generator.ts) and the request handlers *)
(* (http-server.ts, mcp-server.ts) as a state machine.                     *)
(*                                                                         *)
(* Time is the value of Date.now(), counted in abstract clock units.       *)
(* Asynchronous file operations (fs.mkdir, fs.writeFile, fs.unlink) are    *)
(* started by a handler and completed later by a separate step, in any     *)
(* order: the handlers never await them.                                   *)
(***************************************************************************)
EXTENDS Integers, Sequences, FiniteSets, TLC

VARIABLES
    now,            \* Date.now()
    sessionTimeout, \* SessionManager.sessionTimeout
    sessions,       \* SessionManager.sessions : sessionId -> Session
    files,          \* the sessions directory : file path -> file content
    io,             \* file operations started and not yet finished
    loadPc,         \* position of the loadSessions() coroutine
    loadLeft,       \* the readdir entries loadSessions() has still to read
    addResult,      \* <<what the last addResponse call returned>>, or <<>>
    swept,          \* history: ids the cleanup interval has removed
    origin,         \* history: which caller created each session id
    nCreated,       \* history: number of createSession calls
    nRestarts,      \* history: number of restarts
    preRestart,     \* history: the store's sessions at the last restart
    gen,            \* the generate request in flight (either transport)
    st,             \* the GET /api/stream request in flight
    mcpApiKey,      \* HTTPServer.mcpApiKey
    req,            \* the last request served without suspension, its reply
    mcpTransports,  \* HTTPServer.mcpTransports: ids of the open transports
    mcpSessions,    \* HTTP mode: MCPServer.sessionManager.sessions
    saveFaults,     \* history: saveSession calls that failed, and how
    env,            \* process.env, the session settings of the documentation
    parseCall,      \* a direct call of parseQuestions: its text and results
    answeredAt      \* history: when addResponse last returned true, per id

storeVars == <<now, sessionTimeout, sessions, files, io, loadPc, loadLeft,
               addResult, swept, origin, nCreated, nRestarts, preRestart,
               saveFaults, env, parseCall, answeredAt>>
bridgeVars == <<mcpTransports, mcpSessions>>
httpVars == <<mcpApiKey, req, mcpTransports, mcpSessions>>
vars == <<now, sessionTimeout, sessions, files, io, loadPc, loadLeft,
          addResult, swept, origin, nCreated, nRestarts, preRestart,
          saveFaults, env, parseCall, answeredAt, gen, st,
          httpVars>>

-----------------------------------------------------------------------------
(* Bounds of the model *)

MaxTime == 2        \* the clock stops advancing here
MaxCreates == 1     \* createSession calls in one behaviour
MaxIo == 2          \* file operations in flight at one time
MaxRestarts == 1    \* process restarts in one behaviour
MaxTextLen == 4     \* tokens the Question Source returns in one call

Timeouts == {1}             \* values of the constructor's timeoutMs
\* process.env.SESSION_TIMEOUT_MS of the environment the server is started
\* in, in clock units: set to twice the constructor's default.
Environments == {[SESSION_TIMEOUT_MS |-> 2]}
\* No saveSession call has failed: failed counts the calls whose fs.mkdir
\* or fs.writeFile threw, unhandled those whose error left saveSession.
NoFaults == [failed |-> 0, unhandled |-> 0]
Suffixes == {"k3x", "9fz"}  \* values of the random suffix of a session id

-----------------------------------------------------------------------------
(* Small helpers over finite maps *)

MapSet(m, k, v) == [x \in DOMAIN m \cup {k} |-> IF x = k THEN v ELSE m[x]]
MapDel(m, k) == [x \in DOMAIN m \ {k} |-> m[x]]
EmptyMap == [x \in {} |-> 0]
Range(s) == {s[i] : i \in DOMAIN s}

-----------------------------------------------------------------------------
(* Questions *)

Categories == {"tech_stack", "scope", "architecture", "features",
               "deployment", "integrations", "other"}

Question(id, text, category, options) ==
    [id |-> id, text |-> text, category |-> category, options |-> options]

getFallbackQuestions ==
    << Question("q1", "What is the primary technology stack?", "tech_stack",
                <<"JavaScript/Node.js", "Python", "Java", "Go", "Other">>),
       Question("q2", "What type of application is this?", "architecture",
                <<"Web application", "Mobile app", "API/Backend service",
                  "Desktop application", "CLI tool">>),
       Question("q3", "What is the deployment target?", "deployment",
                <<"Cloud (AWS/GCP/Azure)", "Vercel/Netlify", "Docker/Kubernetes",
                  "On-premises", "Local development only">>),
       Question("q4", "Does this require a database?", "features",
                <<"Yes, SQL (PostgreSQL/MySQL)", "Yes, NoSQL (MongoDB/DynamoDB)",
                  "Yes, both", "No", "Not sure">>),
       Question("q5", "What is the project scope?", "scope",
                <<"Quick prototype/MVP", "Production-ready application",
                  "Enterprise-grade system", "Personal project",
                  "Learning/experimental">>) >>

QuestionIds(questions) == {questions[i].id : i \in DOMAIN questions}

-----------------------------------------------------------------------------
(* Serialisation of a session: saveSession writes JSON.stringify of the    *)
(* session with the responses Map turned into a plain object; Date fields  *)
(* are written by Date.prototype.toJSON as ISO-8601 text.                  *)

toISOString(t) == <<"iso", t>>
ParseDate(s) == s[2]
ObjectFromEntries(m) == {<<k, m[k]>> : k \in DOMAIN m}
MapFromEntries(o) ==
    [k \in {p[1] : p \in o} |-> (CHOOSE p \in o : p[1] = k)[2]]

FilePath(sessionId) == <<sessionId, ".json">>

Serialize(session) ==
    [sessionId |-> session.sessionId,
     taskDescription |-> session.taskDescription,
     questions |-> session.questions,
     responses |-> ObjectFromEntries(session.responses),
     createdAt |-> toISOString(session.createdAt),
     lastUpdated |-> toISOString(session.lastUpdated)]

Deserialize(data) ==
    [sessionId |-> data.sessionId,
     taskDescription |-> data.taskDescription,
     questions |-> data.questions,
     responses |-> MapFromEntries(data.responses),
     createdAt |-> ParseDate(data.createdAt),
     lastUpdated |-> ParseDate(data.lastUpdated)]


-----------------------------------------------------------------------------
(* Inputs of the store operations *)

TaskDescriptions == {"build a chat app"}
Answers == {"React", "Vue"}
UnknownSessionId == <<0, "none">>
QuestionIdInputs == {"q1", "q2", "zz"}

generateSessionId(r) == <<now, r>>

\* Question lists handed to direct createSession calls.
StoreQuestionLists ==
    { <<getFallbackQuestions[1]>>,
      <<getFallbackQuestions[1], getFallbackQuestions[2]>> }
DiskQuestionLists == { <<getFallbackQuestions[1]>> }

-----------------------------------------------------------------------------
(* File operations in flight.  An operation is [kind, sid, obj, content]: *)
(*   mkdir  - saveSession is suspended in `await fs.mkdir`; obj = <<>>     *)
(*            while the session object it holds is the one in the map,     *)
(*            <<session>> once that object has left the map (its fields    *)
(*            can no longer change);                                       *)
(*   write  - fs.writeFile has been called with content[1];                *)
(*   unlink - fs.unlink has been called by the cleanup interval.           *)

IoOp(kind, sid, obj, content) ==
    [kind |-> kind, sid |-> sid, obj |-> obj, content |-> content]

\* The session object of id sid leaves the map: pending saves keep it.
Detach(ops, sid) ==
    {IF op.kind = "mkdir" /\ op.sid = sid /\ op.obj = <<>>
        THEN IoOp("mkdir", sid, <<sessions[sid]>>, <<>>)
        ELSE op : op \in ops}

DetachAll(ops, sids) ==
    {IF op.kind = "mkdir" /\ op.sid \in sids /\ op.obj = <<>>
        THEN IoOp("mkdir", op.sid, <<sessions[op.sid]>>, <<>>)
        ELSE op : op \in ops}

\* saveSession up to its first await: fs.mkdir is pending.
saveSessionStart(ops, sid) == ops \cup {IoOp("mkdir", sid, <<>>, <<>>)}

\* fs.mkdir resolved: the session is serialised now and fs.writeFile starts.
MkdirDone(op) ==
    /\ op \in io /\ op.kind = "mkdir"
    /\ LET session == IF op.obj = <<>> THEN sessions[op.sid] ELSE op.obj[1]
       IN io' = (io \ {op})
                  \cup {IoOp("write", op.sid, <<>>, <<Serialize(session)>>)}
    /\ UNCHANGED <<now, sessionTimeout, sessions, files, loadPc, loadLeft,
                   addResult, swept, origin, nCreated, nRestarts, preRestart,
                   saveFaults, env, parseCall, answeredAt,
                   gen, st, httpVars>>

\* fs.writeFile resolved: the file holds the content, whole-file overwrite.
WriteDone(op) ==
    /\ op \in io /\ op.kind = "write"
    /\ io' = io \ {op}
    /\ files' = MapSet(files, FilePath(op.sid), op.content[1])
    /\ UNCHANGED <<now, sessionTimeout, sessions, loadPc, loadLeft,
                   addResult, swept, origin, nCreated, nRestarts, preRestart,
                   saveFaults, env, parseCall, answeredAt,
                   gen, st, httpVars>>

\* fs.unlink settled: the file is gone; a missing file is swallowed.
UnlinkDone(op) ==
    /\ op \in io /\ op.kind = "unlink"
    /\ io' = io \ {op}
    /\ files' = MapDel(files, FilePath(op.sid))
    /\ UNCHANGED <<now, sessionTimeout, sessions, loadPc, loadLeft,
                   addResult, swept, origin, nCreated, nRestarts, preRestart,
                   saveFaults, env, parseCall, answeredAt,
                   gen, st, httpVars>>

MaxFaults == 1      \* failing file operations in one behaviour

saveSessionRethrow(faults) ==
    [faults EXCEPT !.failed = @ + 1, !.unhandled = @ + 1]

\* catch (error) { console.error(...) }: the failure is counted, the
\* promise saveSession returned resolves.
saveSessionCatch(faults) == [faults EXCEPT !.failed = @ + 1]

\* fs.mkdir rejected: saveSession's catch runs, nothing is written.
MkdirFail(op) ==
    /\ op \in io /\ op.kind = "mkdir"
    /\ saveFaults.failed < MaxFaults
    /\ io' = io \ {op}
    /\ saveFaults' = saveSessionCatch(saveFaults)
    /\ UNCHANGED <<now, sessionTimeout, sessions, files, loadPc, loadLeft,
                   addResult, swept, origin, nCreated, nRestarts, preRestart,
                   env, parseCall, answeredAt, gen, st, httpVars>>

\* fs.writeFile rejected: the file is as it was, or cut short; saveSession's
\* catch runs.
WriteFail(op) ==
    /\ op \in io /\ op.kind = "write"
    /\ saveFaults.failed < MaxFaults
    /\ io' = io \ {op}
    /\ files' \in {files, MapSet(files, FilePath(op.sid), [truncated |-> TRUE])}
    /\ saveFaults' = saveSessionCatch(saveFaults)
    /\ UNCHANGED <<now, sessionTimeout, sessions, loadPc, loadLeft,
                   addResult, swept, origin, nCreated, nRestarts, preRestart,
                   env, parseCall, answeredAt, gen, st, httpVars>>

PendingFor(sid) == {op \in io : op.sid = sid}

-----------------------------------------------------------------------------
(* SessionManager *)

NewSession(sessionId, taskDescription, questions) ==
    [sessionId |-> sessionId,
     taskDescription |-> taskDescription,
     questions |-> questions,
     responses |-> EmptyMap,
     createdAt |-> now,
     lastUpdated |-> now]

\* createSession: the effect on the store, shared by every caller.
createSession(taskDescription, questions, r, who) ==
    LET sessionId == generateSessionId(r)
        held == IF sessionId \in DOMAIN sessions
                   THEN Detach(io, sessionId) ELSE io
    IN /\ sessions' = MapSet(sessions, sessionId,
                             NewSession(sessionId, taskDescription, questions))
       /\ io' = saveSessionStart(held, sessionId)
       /\ origin' = MapSet(origin, sessionId, who)
       /\ nCreated' = nCreated + 1
       /\ swept' = swept \ {sessionId}
       /\ UNCHANGED <<now, sessionTimeout, files, loadPc, loadLeft,
                      addResult, nRestarts, preRestart, saveFaults, env, parseCall, answeredAt>>

\* A direct call of createSession with one of the given question lists.
CreateSession(lists) ==
    \E td \in TaskDescriptions, qs \in lists, r \in Suffixes :
        /\ createSession(td, qs, r, "direct")
        /\ UNCHANGED <<gen, st, httpVars>>

getSessionNever(sessionId) == <<>>

getSession(sessionId) ==
    IF sessionId \in DOMAIN sessions THEN <<sessions[sessionId]>> ELSE <<>>

QuestionFoundAlways(session, questionId) == TRUE

\* session.questions.find(q => q.id === questionId)
QuestionFound(session, questionId) ==
    \E i \in DOMAIN session.questions : session.questions[i].id = questionId

addResponseTouching(sessionId, questionId, answer) ==
    IF sessionId \notin DOMAIN sessions
    THEN /\ addResult' = <<FALSE>>
         /\ UNCHANGED <<now, sessionTimeout, sessions, files, io, loadPc,
                        loadLeft, swept, origin, nCreated, nRestarts, preRestart,
                        saveFaults, env, parseCall, answeredAt>>
    ELSE /\ sessions' = [sessions EXCEPT ![sessionId] =
                [@ EXCEPT !.responses =
                              IF QuestionFound(sessions[sessionId], questionId)
                              THEN MapSet(@, questionId, answer) ELSE @,
                          !.lastUpdated = now]]
         /\ io' = saveSessionStart(io, sessionId)
         /\ addResult' = <<QuestionFound(sessions[sessionId], questionId)>>
         /\ UNCHANGED <<now, sessionTimeout, files, loadPc, loadLeft,
                        swept, origin, nCreated, nRestarts, preRestart,
                        saveFaults, env, parseCall, answeredAt>>

addResponseCreating(sessionId, questionId, answer) ==
    IF sessionId \in DOMAIN sessions
       /\ ~QuestionFound(sessions[sessionId], questionId)
    THEN /\ addResult' = <<FALSE>>
         /\ UNCHANGED <<now, sessionTimeout, sessions, files, io, loadPc,
                        loadLeft, swept, origin, nCreated, nRestarts, preRestart,
                        saveFaults, env, parseCall, answeredAt>>
    ELSE /\ sessions' =
                IF sessionId \in DOMAIN sessions
                THEN [sessions EXCEPT ![sessionId] =
                        [@ EXCEPT !.responses = MapSet(@, questionId, answer),
                                  !.lastUpdated = now]]
                ELSE MapSet(sessions, sessionId,
                            [sessionId |-> sessionId, taskDescription |-> "",
                             questions |-> <<>>,
                             responses |-> MapSet(EmptyMap, questionId, answer),
                             createdAt |-> now, lastUpdated |-> now])
         /\ io' = saveSessionStart(io, sessionId)
         /\ addResult' = <<sessionId \in DOMAIN sessions>>
         /\ UNCHANGED <<now, sessionTimeout, files, loadPc, loadLeft,
                        swept, origin, nCreated, nRestarts, preRestart,
                        saveFaults, env, parseCall, answeredAt>>

addResponseConsuming(sessionId, questionId, answer) ==
    IF sessionId \notin DOMAIN sessions
       \/ ~QuestionFound(sessions[sessionId], questionId)
    THEN /\ addResult' = <<FALSE>>
         /\ UNCHANGED <<now, sessionTimeout, sessions, files, io, loadPc,
                        loadLeft, swept, origin, nCreated, nRestarts, preRestart,
                        saveFaults, env, parseCall, answeredAt>>
    ELSE /\ sessions' = [sessions EXCEPT ![sessionId] =
                [@ EXCEPT !.responses = MapSet(@, questionId, answer),
                          !.questions = SelectSeq(@, LAMBDA q : q.id # questionId),
                          !.lastUpdated = now]]
         /\ io' = saveSessionStart(io, sessionId)
         /\ answeredAt' = MapSet(answeredAt, sessionId, now)
         /\ addResult' = <<TRUE>>
         /\ UNCHANGED <<now, sessionTimeout, files, loadPc, loadLeft,
                        swept, origin, nCreated, nRestarts, preRestart,
                        saveFaults, env, parseCall>>

addResponseKeepingFirst(sessionId, questionId, answer) ==
    IF sessionId \notin DOMAIN sessions
       \/ ~QuestionFound(sessions[sessionId], questionId)
    THEN /\ addResult' = <<FALSE>>
         /\ UNCHANGED <<now, sessionTimeout, sessions, files, io, loadPc,
                        loadLeft, swept, origin, nCreated, nRestarts, preRestart,
                        saveFaults, env, parseCall, answeredAt>>
    ELSE /\ sessions' = [sessions EXCEPT ![sessionId] =
                [@ EXCEPT !.responses = IF questionId \in DOMAIN @ THEN @
                                        ELSE MapSet(@, questionId, answer),
                          !.lastUpdated = now]]
         /\ io' = saveSessionStart(io, sessionId)
         /\ answeredAt' = MapSet(answeredAt, sessionId, now)
         /\ addResult' = <<TRUE>>
         /\ UNCHANGED <<now, sessionTimeout, files, loadPc, loadLeft,
                        swept, origin, nCreated, nRestarts, preRestart,
                        saveFaults, env, parseCall>>

\* addResponse: the effect on the store and the value returned.
addResponse(sessionId, questionId, answer) ==
    IF sessionId \notin DOMAIN sessions
       \/ ~QuestionFound(sessions[sessionId], questionId)
    THEN /\ addResult' = <<FALSE>>
         /\ UNCHANGED <<now, sessionTimeout, sessions, files, io, loadPc,
                        loadLeft, swept, origin, nCreated, nRestarts, preRestart,
                        saveFaults, env, parseCall, answeredAt>>
    ELSE /\ sessions' = [sessions EXCEPT ![sessionId] =
                [@ EXCEPT !.responses = MapSet(@, questionId, answer),
                          !.lastUpdated = now]]
         /\ io' = saveSessionStart(io, sessionId)
         /\ answeredAt' = MapSet(answeredAt, sessionId, now)
         /\ addResult' = <<TRUE>>
           /\ UNCHANGED <<now, sessionTimeout, files, loadPc, loadLeft,
                        swept, origin, nCreated, nRestarts, preRestart,
                        saveFaults, env, parseCall>>

AddResponse ==
    \E sessionId \in DOMAIN sessions \cup swept \cup {UnknownSessionId},
       questionId \in QuestionIdInputs, answer \in Answers :
        /\ addResponse(sessionId, questionId, answer)
        /\ UNCHANGED <<gen, st, httpVars>>

\* now - session.lastUpdated.getTime() > this.sessionTimeout
Expired(session) == now - session.lastUpdated > sessionTimeout

\* One run of the setInterval callback of startCleanupInterval.
Sweep ==
    LET gone == {sid \in DOMAIN sessions : Expired(sessions[sid])}
    IN /\ gone # {}
       /\ sessions' = [sid \in DOMAIN sessions \ gone |-> sessions[sid]]
       /\ io' = DetachAll(io, gone) \cup {IoOp("unlink", sid, <<>>, <<>>) : sid \in gone}
       /\ swept' = swept \cup gone
       /\ UNCHANGED <<now, sessionTimeout, files, loadPc, loadLeft, addResult,
                      origin, nCreated, nRestarts, preRestart,
                      saveFaults, env, parseCall, answeredAt, gen, st, httpVars>>

\* The clock advances.
Tick ==
    /\ now < MaxTime
    /\ now' = now + 1
    /\ UNCHANGED <<sessionTimeout, sessions, files, io, loadPc, loadLeft,
                   addResult, swept, origin, nCreated, nRestarts, preRestart,
                   saveFaults, env, parseCall, answeredAt,
                   gen, st, httpVars>>

-----------------------------------------------------------------------------
(* loadSessions, started by the constructor and never awaited *)

LoadMkdir ==
    /\ loadPc = "mkdir"
    /\ loadPc' = "readdir"
    /\ UNCHANGED <<now, sessionTimeout, sessions, files, io, loadLeft,
                   addResult, swept, origin, nCreated, nRestarts, preRestart,
                   saveFaults, env, parseCall, answeredAt,
                   gen, st, httpVars>>

LoadReaddir ==
    /\ loadPc = "readdir"
    /\ loadLeft' = {f \in DOMAIN files : f[2] = ".json"}
    /\ loadPc' = IF loadLeft' = {} THEN "done" ELSE "read"
    /\ UNCHANGED <<now, sessionTimeout, sessions, files, io,
                   addResult, swept, origin, nCreated, nRestarts, preRestart,
                   saveFaults, env, parseCall, answeredAt,
                   gen, st, httpVars>>

\* A file of the directory that is not the JSON text of a session: cut
\* short, or written by something else.
Malformed == [truncated |-> TRUE]
MalformedPath == <<<<0, "notes">>, ".json">>

\* JSON.parse(content) returns
Parses(content) == "sessionId" \in DOMAIN content

\* Such a file appears in the directory while the process runs.
DropMalformedFile ==
    /\ MalformedPath \notin DOMAIN files
    /\ files' = MapSet(files, MalformedPath, Malformed)
    /\ UNCHANGED <<now, sessionTimeout, sessions, io, loadPc, loadLeft,
                   addResult, swept, origin, nCreated, nRestarts, preRestart,
                   saveFaults, env, parseCall, answeredAt,
                   gen, st, httpVars>>

\* One iteration of the loop: readFile resolved and JSON.parse returned, the
\* session is put into the map; or one of them threw, and the catch around
\* the whole loop ends loading.
LoadRead ==
    /\ loadPc = "read"
    /\ \E f \in loadLeft :
        IF f \in DOMAIN files /\ Parses(files[f])
        THEN LET session == Deserialize(files[f])
                 sid == session.sessionId
             IN /\ sessions' = MapSet(sessions, sid, session)
                /\ io' = IF sid \in DOMAIN sessions THEN Detach(io, sid) ELSE io
                /\ loadLeft' = loadLeft \ {f}
                /\ loadPc' = IF loadLeft' = {} THEN "done" ELSE "read"
        ELSE /\ loadPc' = "done"
             /\ loadLeft' = {}
             /\ UNCHANGED <<sessions, io>>
    /\ UNCHANGED <<now, sessionTimeout, files, addResult, swept, origin,
                   nCreated, nRestarts, preRestart,
                   saveFaults, env, parseCall, answeredAt, gen, st, httpVars>>

\* The process ends once its file operations have drained and a new one is
\* started over the same directory: new SessionManager(timeoutMs, dir).
Restart ==
    /\ io = {} /\ loadPc = "done"
    /\ nRestarts < MaxRestarts
    /\ nRestarts' = nRestarts + 1
    /\ sessions # EmptyMap
    /\ gen.pc = "idle" /\ st.pc = "idle"
    /\ sessions' = EmptyMap
    /\ loadPc' = "mkdir"
    /\ loadLeft' = {}
    /\ preRestart' = sessions
    /\ addResult' = <<>>
    /\ UNCHANGED <<now, sessionTimeout, files, io, swept, origin, nCreated,
                   saveFaults, env, parseCall, answeredAt, gen, st, httpVars>>

-----------------------------------------------------------------------------
(* The text the Question Source returns, as a sequence of tokens.  A token *)
(* is one of                                                               *)
(*   junk  - text without braces, such as "Here are the questions:"        *)
(*   open  - {"questions":[                                                *)
(*   close - ]}                                                            *)
(*   obj   - one complete question object literal { ... }, with the comma  *)
(*           that separates it from its neighbour in an array              *)
(* An optional field of a question object is <<>> when absent and <<v>>    *)
(* when present.                                                           *)

Tok(t, id, text, category, options) ==
    [t |-> t, id |-> id, text |-> text, category |-> category,
     options |-> options]

Junk == Tok("junk", <<>>, <<>>, <<>>, <<>>)
Open == Tok("open", <<>>, <<>>, <<>>, <<>>)
Close == Tok("close", <<>>, <<>>, <<>>, <<>>)
Obj(id, text, category, options) == Tok("obj", id, text, category, options)

\* The question objects the Question Source is taken to produce.
SourceObjects ==
    { Obj(<<"q1">>, <<"What frontend framework should be used?">>,
          <<"tech_stack">>, <<<<"React", "Vue", "Other">>>>),
      Obj(<<"q2">>, <<"Do you need a backend?">>, <<"backend">>, <<>>),
      Obj(<<>>, <<"Where will it run?">>, <<>>, <<>>) }

SourceTokens == {Junk, Open, Close} \cup SourceObjects

SourceTexts == UNION {[1..n -> SourceTokens] : n \in 1..MaxTextLen}

-----------------------------------------------------------------------------
(* QuestionGenerator *)

HasOpenBrace(tok) == tok.t \in {"open", "obj"}
HasCloseBrace(tok) == tok.t \in {"close", "obj"}

Min(S) == CHOOSE x \in S : \A y \in S : x <= y
Max(S) == CHOOSE x \in S : \A y \in S : x >= y

\* cleaned.match(/\{[\s\S]*\}/): from the first "{" to the last "}" of the
\* text; <<>> when there is no match, <<span>> otherwise.
JsonMatch(text) ==
    LET opens == {i \in 1..Len(text) : HasOpenBrace(text[i])}
    IN IF opens = {} THEN <<>>
       ELSE LET i == Min(opens)
                closes == {j \in i..Len(text) : HasCloseBrace(text[j])}
            IN IF closes = {} THEN <<>>
               ELSE <<SubSeq(text, i, Max(closes))>>

\* JSON.parse of a matched span: "error" when it throws, else the decoded
\* object, of which only its questions field matters: <<>> when that field is
\* absent and <<entries>> when it is an array.
JsonParse(span) ==
    IF /\ Len(span) >= 2
       /\ span[1].t = "open"
       /\ span[Len(span)].t = "close"
       /\ \A k \in 2..(Len(span) - 1) : span[k].t = "obj"
    THEN [ok |-> TRUE, questions |-> <<SubSeq(span, 2, Len(span) - 1)>>]
    ELSE IF Len(span) = 1 /\ span[1].t = "obj"
    THEN [ok |-> TRUE, questions |-> <<>>]
    ELSE [ok |-> FALSE, questions |-> <<>>]

\* x || fallback for an optional string field.
Falsy(field) == field = <<>> \/ field = <<"">>

QuestionName(index) == "q" \o ToString(index)

\* The callback of parseCall.questions.map, index counted from 1.
MapEntry(q, index) ==
    Question(IF Falsy(q.id) THEN QuestionName(index) ELSE q.id[1],
             IF q.text = <<>> THEN "undefined" ELSE q.text[1],
             IF Falsy(q.category) THEN "other" ELSE q.category[1],
             IF q.options = <<>> THEN <<>> ELSE q.options[1])

parseQuestionsOrNothing(jsonText) ==
    LET jsonMatch == JsonMatch(jsonText)
    IN IF jsonMatch = <<>> THEN <<>>
       ELSE LET parsed == JsonParse(jsonMatch[1])
            IN IF ~parsed.ok \/ parsed.questions = <<>>
               THEN <<>>
               ELSE [i \in 1..Len(parsed.questions[1]) |->
                        MapEntry(parsed.questions[1][i], i)]

parseQuestions(jsonText) ==
    LET jsonMatch == JsonMatch(jsonText)
    IN IF jsonMatch = <<>> THEN getFallbackQuestions
       ELSE LET parsed == JsonParse(jsonMatch[1])
            IN IF ~parsed.ok \/ parsed.questions = <<>>
               THEN getFallbackQuestions
               ELSE [i \in 1..Len(parsed.questions[1]) |->
                        MapEntry(parsed.questions[1][i], i)]

\* parseQuestions catches every error itself, so the catch of
\* tryParsePartialQuestions (return []) is never entered.
tryParsePartialQuestions(text) == parseQuestions(text)

\* Texts handed to a direct call: those of the Question Source and, in
\* addition, a question object whose id and category are the empty string.
ParseTokens ==
    SourceTokens \cup {Obj(<<"">>, <<"Which database?">>, <<"">>, <<>>)}
ParseTexts == UNION {[1..n -> ParseTokens] : n \in 0..MaxTextLen}

\* No call yet; afterwards the text, the result of the last call and
\* <<the result of the call before it>>.
NotParsed == [jsonText |-> <<>>, questions |-> <<>>, before |-> <<>>,
              calls |-> 0]

\* this.parseQuestions(jsonText)
ParseQuestions ==
    /\ parseCall.calls = 0
    /\ \E jsonText \in ParseTexts :
         parseCall' = [jsonText |-> jsonText,
                    questions |-> parseQuestions(jsonText),
                    before |-> <<>>, calls |-> 1]
    /\ UNCHANGED <<now, sessionTimeout, sessions, files, io, loadPc, loadLeft,
                   addResult, swept, origin, nCreated, nRestarts, preRestart,
                   saveFaults, env, answeredAt, gen, st, httpVars>>

\* A second call with the same text.
ParseQuestionsAgain ==
    /\ parseCall.calls = 1
    /\ parseCall' = [parseCall EXCEPT !.questions = parseQuestions(parseCall.jsonText),
                                !.before = <<parseCall.questions>>,
                                !.calls = 2]
    /\ UNCHANGED <<now, sessionTimeout, sessions, files, io, loadPc, loadLeft,
                   addResult, swept, origin, nCreated, nRestarts, preRestart,
                   saveFaults, env, answeredAt, gen, st, httpVars>>

-----------------------------------------------------------------------------
(* Authentication: the middleware in front of /mcp and of every /api route. *)
(* An Authorization header is <<>> when absent, else <<scheme, rest>> with  *)
(* rest the text after the white space that follows the scheme ("" if none).*)

MaxRequests == 2    \* requests served without suspension in one behaviour

Keys == {"key-a", "key-b"}
NoHeader == <<>>
\* Absent, the two keys under two spellings of the scheme, another scheme,
\* and a scheme with nothing after it.
Headers == {NoHeader, <<"Bearer", "key-a">>, <<"bearer", "key-b">>,
            <<"Basic", "key-a">>, <<"Bearer", "">>}
\* The header a client that knows the key sends.
KeyHeader == {<<"Bearer", mcpApiKey>>}

\* authHeader.match(/^Bearer\s+(.+)$/i)?.[1] : <<>> when there is no match
BearerToken(authHeader) ==
    IF authHeader[1] \in {"Bearer", "bearer"} /\ authHeader[2] # ""
    THEN <<authHeader[2]>> ELSE <<>>

AuthorizedAlways(authHeader) == TRUE

\* TRUE when the middleware calls next()
Authorized(authHeader) ==
    /\ authHeader # NoHeader
    /\ BearerToken(authHeader) # <<>>
    /\ BearerToken(authHeader)[1] = mcpApiKey

\* The reply of a handler that does not suspend: HTTP status (0 on the tool
\* protocol), the tool protocol's isError, whether the error escaped the
\* handler as an unhandled fault, the error text and the payload.
Resp(code, isError, error, body) ==
    [code |-> code, isError |-> isError, fault |-> FALSE, error |-> error,
     body |-> body]
NoResp == Resp(0, FALSE, "", <<>>)

UnauthorizedWithReason(authHeader) ==
    Resp(401, TRUE, IF authHeader = NoHeader THEN "Missing token"
                                             ELSE "Invalid token", <<>>)

\* res.status(401).json({ error: 'Unauthorized' }), on both branches
Unauthorized(authHeader) == Resp(401, TRUE, "Unauthorized", <<>>)

\* A served request: its route, transport, inputs and reply; n counts the
\* requests served so far and misses the answer requests among them whose
\* session or question was not found.  Two more history fields: answered,
\* the <<session id, question id>> pairs of the answer requests that
\* succeeded so far, and prior, <<the answer the store held for the
\* question when this answer request arrived>> or <<>>.
ReqIdle == [n |-> 0, misses |-> 0, route |-> "none", via |-> "none",
            header |-> NoHeader, sessionId |-> <<>>, questionId |-> "",
            answer |-> "", resp |-> NoResp, answered |-> {}, prior |-> <<>>]

\* The key Map.get is called with: an absent id finds nothing.
StoreKey(sessionId) ==
    IF sessionId = <<>> THEN UnknownSessionId ELSE sessionId[1]

PriorAnswer(via, sessionId, questionId) ==
    LET store == IF via = "bridge" THEN mcpSessions ELSE sessions
        key == StoreKey(sessionId)
    IN IF key \in DOMAIN store /\ questionId \in DOMAIN store[key].responses
       THEN <<store[key].responses[questionId]>> ELSE <<>>

Served(route, via, header, sessionId, questionId, answer, resp) ==
    [n |-> req.n + 1,
     misses |-> req.misses
                  + (IF route = "answer"
                        /\ resp.error \in {"Session or question not found",
                                           "Invalid session ID or question ID"}
                     THEN 1 ELSE 0),
     route |-> route, via |-> via, header |-> header, sessionId |-> sessionId,
     questionId |-> questionId, answer |-> answer, resp |-> resp,
     answered |-> IF route = "answer" /\ ~resp.isError
                  THEN req.answered \cup {<<StoreKey(sessionId), questionId>>}
                  ELSE req.answered,
     prior |-> IF route = "answer" /\ ~resp.isError
               THEN PriorAnswer(via, sessionId, questionId) ELSE <<>>]

\* A fault that escapes a handler ends the process: nothing is served after.
CanServe == req.n < MaxRequests /\ ~req.resp.fault

-----------------------------------------------------------------------------
(* Request handlers: generate over HTTP (POST /api/generate) and over the  *)
(* tool protocol (generate_questions), and GET /api/stream.                *)

NoSessionId == <<>>
NoResponse == [code |-> 0, isError |-> FALSE, sessionId |-> <<>>,
               questions |-> <<>>]
Reply(code, isError, sessionId, questions) ==
    [code |-> code, isError |-> isError, sessionId |-> sessionId,
     questions |-> questions]

GenIdle == [pc |-> "idle", via |-> "none", header |-> NoHeader, td |-> "",
            sessionId |-> NoSessionId, source |-> "none", resp |-> NoResponse]

\* The reply to a failed generate: HTTP 500 from the route's catch, an
\* isError payload from the tool handler's catch.
GenerateErrorReply(via) ==
    IF via = "http" THEN Reply(500, TRUE, <<>>, <<>>)
                    ELSE Reply(0, TRUE, <<>>, <<>>)

GenerateOkReply(via, session) ==
    Reply(IF via = "http" THEN 200 ELSE 0, FALSE, <<session.sessionId>>,
          session.questions)

GenerateStartUnvalidated(via, headers) ==
    /\ gen.pc = "idle" /\ st.pc = "idle"
    /\ \E header \in headers,
          td \in TaskDescriptions \cup {""},
          sessionId \in {NoSessionId}
                          \cup {<<sid>> : sid \in DOMAIN sessions
                                                     \cup {UnknownSessionId}} :
        LET arrived == [GenIdle EXCEPT !.via = via, !.td = td,
                           !.header = IF via = "http" THEN header ELSE NoHeader,
                           !.sessionId = sessionId]
        IN gen' = IF via = "http" /\ ~Authorized(header)
                  THEN [arrived EXCEPT !.pc = "done",
                                       !.resp = Reply(401, TRUE, <<>>, <<>>)]
                  ELSE IF sessionId # NoSessionId
                          /\ getSession(sessionId[1]) # <<>>
                  THEN [arrived EXCEPT !.pc = "done",
                           !.resp = GenerateOkReply(via,
                                        getSession(sessionId[1])[1])]
                  ELSE [arrived EXCEPT !.pc = "await"]
    /\ UNCHANGED <<now, sessionTimeout, sessions, files, io, loadPc, loadLeft,
                   addResult, swept, origin, nCreated, nRestarts, preRestart,
                   saveFaults, env, parseCall, answeredAt,
                   st, httpVars>>

\* A generate request arrives: the middleware (HTTP only), validation, the
\* lookup of a supplied session id, then the call of generateQuestions,
\* which suspends the handler.
GenerateStart(via, headers) ==
    /\ gen.pc = "idle" /\ st.pc = "idle"
    /\ \E header \in headers,
          td \in TaskDescriptions \cup {""},
          sessionId \in {NoSessionId}
                          \cup {<<sid>> : sid \in DOMAIN sessions
                                                     \cup {UnknownSessionId}} :
        LET arrived == [GenIdle EXCEPT !.via = via, !.td = td,
                           !.header = IF via = "http" THEN header ELSE NoHeader,
                           !.sessionId = sessionId]
        IN gen' = IF via = "http" /\ ~Authorized(header)
                  THEN [arrived EXCEPT !.pc = "done",
                                       !.resp = Reply(401, TRUE, <<>>, <<>>)]
                  ELSE IF via = "http" /\ td = ""
                  THEN [arrived EXCEPT !.pc = "done",
                                       !.resp = Reply(400, TRUE, <<>>, <<>>)]
                  ELSE IF sessionId # NoSessionId
                          /\ getSession(sessionId[1]) # <<>>
                  THEN [arrived EXCEPT !.pc = "done",
                           !.resp = GenerateOkReply(via,
                                        getSession(sessionId[1])[1])]
                  ELSE [arrived EXCEPT !.pc = "await"]
    /\ UNCHANGED <<now, sessionTimeout, sessions, files, io, loadPc, loadLeft,
                   addResult, swept, origin, nCreated, nRestarts, preRestart,
                   saveFaults, env, parseCall, answeredAt,
                   st, httpVars>>

\* The Question Source returns content: parse, create the session, reply.
GenerateReturn ==
    /\ gen.pc = "await"
    /\ \E content \in SourceTexts, r \in Suffixes :
        LET questions == parseQuestions(content)
        IN /\ createSession(gen.td, questions, r, "generate")
           /\ gen' = [gen EXCEPT !.pc = "done", !.source = "content",
                        !.resp = GenerateOkReply(gen.via,
                                    sessions'[generateSessionId(r)])]
    /\ UNCHANGED <<st, httpVars>>

\* The Question Source call throws or returns no content: generateQuestions
\* logs and rethrows, the handler's catch replies.
GenerateFail ==
    /\ gen.pc = "await"
    /\ gen' = [gen EXCEPT !.pc = "done", !.source = "failed",
                          !.resp = GenerateErrorReply(gen.via)]
    /\ UNCHANGED <<now, sessionTimeout, sessions, files, io, loadPc, loadLeft,
                   addResult, swept, origin, nCreated, nRestarts, preRestart,
                   saveFaults, env, parseCall, answeredAt,
                   st, httpVars>>

\* Server-sent events
Event(event, data, count, sessionId) ==
    [event |-> event, data |-> data, count |-> count, sessionId |-> sessionId]
StartEvent == Event("start", <<>>, 0, <<>>)
QuestionEvent(question) == Event("question", <<question>>, 0, <<>>)
CompleteEvent(sessionId, questionCount) ==
    Event("complete", <<>>, questionCount, <<sessionId>>)
ErrorEvent == Event("error", <<>>, 0, <<>>)

StreamIdle == [pc |-> "idle", header |-> NoHeader, td |-> "", text |-> <<>>,
               questions |-> <<>>, events |-> <<>>, sessionId |-> <<>>,
               code |-> 0]

AlreadyEmittedNever(questions, question) == FALSE

\* questions.find(q => q.id === question.id)
AlreadyEmitted(questions, question) ==
    \E i \in DOMAIN questions : questions[i].id = question.id

\* The body of the route's for-await loop run over the questions one
\* resumption of streamQuestions yields: [questions, events] afterwards.
RECURSIVE Consume(_, _, _)
Consume(questions, events, yielded) ==
    IF yielded = <<>> THEN [questions |-> questions, events |-> events]
    ELSE IF AlreadyEmitted(questions, Head(yielded))
    THEN Consume(questions, events, Tail(yielded))
    ELSE Consume(Append(questions, Head(yielded)),
                 Append(events, QuestionEvent(Head(yielded))),
                 Tail(yielded))

\* GET /api/stream arrives: 401 from the middleware, 400 without
\* taskDescription; otherwise the headers and the start event are written
\* and streamQuestions is started.
StreamStart(headers) ==
    /\ gen.pc = "idle" /\ st.pc = "idle"
    /\ \E header \in headers, td \in TaskDescriptions \cup {""} :
        st' = IF ~Authorized(header)
              THEN [StreamIdle EXCEPT !.pc = "done", !.header = header,
                                      !.code = 401]
              ELSE IF td = ""
              THEN [StreamIdle EXCEPT !.pc = "done", !.header = header,
                                      !.code = 400]
              ELSE [StreamIdle EXCEPT !.pc = "open", !.header = header,
                                      !.td = td, !.code = 200,
                                      !.events = <<StartEvent>>]
    /\ UNCHANGED <<now, sessionTimeout, sessions, files, io, loadPc, loadLeft,
                   addResult, swept, origin, nCreated, nRestarts, preRestart,
                   saveFaults, env, parseCall, answeredAt,
                   gen, httpVars>>

\* A chunk with content arrives: it is appended to accumulatedText, the
\* buffer is parseCall and every question of the result is yielded.
StreamChunk ==
    /\ st.pc = "open"
    /\ \E n \in 1..(MaxTextLen - Len(st.text)) :
       \E content \in [1..n -> SourceTokens] :
        LET accumulatedText == st.text \o content
            after == Consume(st.questions, st.events,
                             tryParsePartialQuestions(accumulatedText))
        IN st' = [st EXCEPT !.text = accumulatedText,
                            !.questions = after.questions,
                            !.events = after.events]
    /\ UNCHANGED <<now, sessionTimeout, sessions, files, io, loadPc, loadLeft,
                   addResult, swept, origin, nCreated, nRestarts, preRestart,
                   saveFaults, env, parseCall, answeredAt,
                   gen, httpVars>>

\* The source's stream ends: the final parse is yielded, the loop ends, the
\* session is created and the complete event written.
StreamEnd ==
    /\ st.pc = "open"
    /\ \E r \in Suffixes :
        LET after == Consume(st.questions, st.events, parseQuestions(st.text))
        IN /\ createSession(st.td, after.questions, r, "stream")
           /\ st' = [st EXCEPT !.pc = "done",
                        !.questions = after.questions,
                        !.sessionId = <<generateSessionId(r)>>,
                        !.events = Append(after.events,
                            CompleteEvent(generateSessionId(r),
                                          Len(after.questions)))]
    /\ UNCHANGED <<gen, httpVars>>

StreamFailSilently ==
    /\ st.pc = "open"
    /\ st' = [st EXCEPT !.pc = "done"]
    /\ UNCHANGED <<now, sessionTimeout, sessions, files, io, loadPc, loadLeft,
                   addResult, swept, origin, nCreated, nRestarts, preRestart,
                   saveFaults, env, parseCall, answeredAt,
                   gen, httpVars>>

StreamFailAfterCreate ==
    /\ st.pc = "open"
    /\ \E r \in Suffixes :
        /\ createSession(st.td, st.questions, r, "stream")
        /\ st' = [st EXCEPT !.pc = "done",
                            !.events = Append(st.events, ErrorEvent)]
    /\ UNCHANGED <<gen, httpVars>>

\* The Question Source call or its stream throws: streamQuestions rethrows,
\* the route's catch writes the error event and ends the response.
StreamFail ==
    /\ st.pc = "open"
    /\ st' = [st EXCEPT !.pc = "done",
                        !.events = Append(st.events, ErrorEvent)]
    /\ UNCHANGED <<now, sessionTimeout, sessions, files, io, loadPc, loadLeft,
                   addResult, swept, origin, nCreated, nRestarts, preRestart,
                   saveFaults, env, parseCall, answeredAt,
                   gen, httpVars>>

-----------------------------------------------------------------------------
(* Handlers that reply without suspending: answer, context and session     *)
(* list on both transports (via = "http" for the /api routes, "mcp" for    *)
(* the tools of the stdio server), and GET /health.                        *)

\* The answer of a request: a value, or "" for an absent or empty one.
AnswerInputs == {"React", ""}

\* Absent, an id some reply of the server carried, or one it never issued.
SessionIdInputs ==
    {NoSessionId} \cup {<<sid>> : sid \in DOMAIN sessions \cup swept
                                              \cup DOMAIN mcpSessions
                                              \cup {UnknownSessionId}}

\* getTaskContext / one element of getAllSessions
TaskContext(session) ==
    [sessionId |-> session.sessionId,
     taskDescription |-> session.taskDescription,
     questions |-> session.questions,
     responses |-> ObjectFromEntries(session.responses),
     createdAt |-> toISOString(session.createdAt),
     lastUpdated |-> toISOString(session.lastUpdated)]

getTaskContext(store, sessionId) ==
    IF sessionId \in DOMAIN store THEN <<TaskContext(store[sessionId])>>
                                  ELSE <<>>

getAllSessions(store) == {TaskContext(store[sid]) : sid \in DOMAIN store}

MathFloor(num, den) == num \div den

\* Math.round(num / den) for num >= 0, den > 0: halves round up
MathRound(num, den) == (2 * num + den) \div (2 * den)

\* Math.round((answered / total) * 100); 0 / 0 is NaN, written as null
Percentage(answered, total) ==
    IF total = 0 THEN <<>> ELSE <<MathRound(100 * answered, total)>>

\* Object.keys(context.responses).length
AnsweredCount(context) == Cardinality({p[1] : p \in context.responses})

Progress(via, context) ==
    [answered |-> AnsweredCount(context),
     total |-> Len(context.questions),
     percentage |-> IF via = "http"
                    THEN Percentage(AnsweredCount(context),
                                    Len(context.questions))
                    ELSE <<>>,
     complete |-> AnsweredCount(context) = Len(context.questions)]

AnswerOkReply(via, context) ==
    Resp(IF via = "http" THEN 200 ELSE 0, FALSE, "", <<Progress(via, context)>>)

AnswerMissFault(via) ==
    [Resp(0, FALSE, "Invalid session ID or question ID", <<>>)
        EXCEPT !.fault = TRUE]

\* addResponse returned false: HTTP 404; on the tool protocol the handler
\* throws and the dispatcher's catch turns the error into an isError reply.
AnswerMissReply(via) ==
    IF via = "http"
    THEN Resp(404, TRUE, "Session or question not found", <<>>)
    ELSE Resp(0, TRUE, "Invalid session ID or question ID", <<>>)

\* POST /api/answer and answer_question
Answer(via, headers) ==
    /\ \E header \in headers,
          sessionId \in SessionIdInputs,
          questionId \in QuestionIdInputs \cup {""},
          answer \in AnswerInputs :
        LET hdr == IF via = "http" THEN header ELSE NoHeader
            served(resp) == Served("answer", via, hdr, sessionId, questionId,
                                   answer, resp)
        IN IF via = "http" /\ ~Authorized(header)
           THEN /\ req' = served(Unauthorized(header))
                /\ UNCHANGED storeVars
           ELSE IF via = "http"
                   /\ (sessionId = NoSessionId \/ questionId = ""
                         \/ answer = "")
           THEN /\ req' = served(Resp(400, TRUE,
                            "sessionId, questionId, and answer are required",
                            <<>>))
                /\ UNCHANGED storeVars
           ELSE /\ addResponse(StoreKey(sessionId), questionId, answer)
                /\ req' = served(
                     IF addResult'[1]
                     THEN AnswerOkReply(via,
                            getTaskContext(sessions', StoreKey(sessionId))[1])
                     ELSE AnswerMissReply(via))
    /\ UNCHANGED <<gen, st, mcpApiKey, bridgeVars>>

\* if (answer): the question has an answer and the answer is not ""
Truthy(context, question) ==
    \E p \in context.responses : p[1] = question.id /\ p[2] # ""

\* The task line and, per question in list order that passes the test, the
\* question line and its answer line.
buildContextSummary(context) ==
    LET kept == SelectSeq(context.questions, LAMBDA q : Truthy(context, q))
    IN [task |-> context.taskDescription,
        entries |-> [i \in 1..Len(kept) |->
                       [question |-> kept[i].text,
                        answer |-> (CHOOSE p \in context.responses :
                                       p[1] = kept[i].id)[2]]]]

\* The payload of a context reply: the tool adds the summary.
ContextBody(via, context) ==
    IF via = "http"
    THEN [context |-> context, progress |-> Progress(via, context)]
    ELSE [context |-> context, progress |-> Progress(via, context),
          summary |-> buildContextSummary(context)]

ContextTouching(via, headers) ==
    /\ \E header \in headers,
          sessionId \in SessionIdInputs \ {NoSessionId} :
        LET hdr == IF via = "http" THEN header ELSE NoHeader
            context == getTaskContext(sessions, sessionId[1])
            resp == IF via = "http" /\ ~Authorized(header)
                    THEN Unauthorized(header)
                    ELSE IF context = <<>>
                    THEN Resp(IF via = "http" THEN 404 ELSE 0, TRUE,
                              "Session not found", <<>>)
                    ELSE Resp(IF via = "http" THEN 200 ELSE 0, FALSE, "",
                              <<ContextBody(via, context[1])>>)
        IN /\ req' = Served("context", via, hdr, sessionId, "", "", resp)
           /\ sessions' = IF resp.isError THEN sessions
                           ELSE [sessions EXCEPT
                                   ![sessionId[1]].lastUpdated = now]
    /\ UNCHANGED <<now, sessionTimeout, files, io, loadPc, loadLeft,
                   addResult, swept, origin, nCreated, nRestarts, preRestart,
                   saveFaults, env, parseCall, answeredAt, gen, st, mcpApiKey, bridgeVars>>

\* GET /api/context/:sessionId and get_context
Context(via, headers) ==
    /\ \E header \in headers,
          sessionId \in SessionIdInputs \ {NoSessionId} :
        LET hdr == IF via = "http" THEN header ELSE NoHeader
            context == getTaskContext(sessions, sessionId[1])
            resp == IF via = "http" /\ ~Authorized(header)
                    THEN Unauthorized(header)
                    ELSE IF context = <<>>
                    THEN Resp(IF via = "http" THEN 404 ELSE 0, TRUE,
                              "Session not found", <<>>)
                    ELSE Resp(IF via = "http" THEN 200 ELSE 0, FALSE, "",
                              <<ContextBody(via, context[1])>>)
        IN req' = Served("context", via, hdr, sessionId, "", "", resp)
    /\ UNCHANGED <<storeVars, gen, st, mcpApiKey, bridgeVars>>

ListEntry(via, context) ==
    [sessionId |-> context.sessionId,
     questionsTotal |-> Len(context.questions),
     questionsAnswered |-> AnsweredCount(context),
     percentComplete |-> IF via = "http"
                         THEN Percentage(AnsweredCount(context),
                                         Len(context.questions))
                         ELSE <<>>]

\* GET /api/sessions and list_sessions
ListSessions(via, headers) ==
    /\ \E header \in headers :
        LET hdr == IF via = "http" THEN header ELSE NoHeader
            all == getAllSessions(sessions)
            resp == IF via = "http" /\ ~Authorized(header)
                    THEN Unauthorized(header)
                    ELSE Resp(IF via = "http" THEN 200 ELSE 0, FALSE, "",
                              <<[totalSessions |-> Cardinality(all),
                                 sessions |-> {ListEntry(via, c) : c \in all}]>>)
        IN req' = Served("sessions", via, hdr, NoSessionId, "", "", resp)
    /\ UNCHANGED <<storeVars, gen, st, mcpApiKey, bridgeVars>>

\* GET /health: registered without the middleware
Health(headers) ==
    /\ \E header \in headers :
        req' = Served("health", "http", header, NoSessionId, "", "",
                      Resp(200, FALSE, "", <<[status |-> "healthy"]>>))
    /\ UNCHANGED <<storeVars, gen, st, mcpApiKey, bridgeVars>>

-----------------------------------------------------------------------------
(* The tool bridge of HTTP mode: GET /mcp opens a transport, POST /mcp      *)
(* hands a tool call to the MCPServer the HTTPServer constructed.  That     *)
(* MCPServer's constructor takes (apiKey, model) and builds its own         *)
(* QuestionGenerator and SessionManager: the two further arguments the     *)
(* HTTPServer passes are not read.  Its SessionManager keeps its own map,   *)
(* mcpSessions, and saves into the same directory.                          *)

TransportIds == {"t1"}
TransportInputs == TransportIds \cup {"gone"}

\* GET /mcp
McpConnect(headers) ==
    /\ \E header \in headers, t \in TransportIds :
        IF ~Authorized(header)
        THEN /\ req' = Served("mcp_connect", "bridge", header, NoSessionId,
                              "", "", Unauthorized(header))
             /\ UNCHANGED bridgeVars
        ELSE /\ req' = Served("mcp_connect", "bridge", header, NoSessionId,
                              "", "", Resp(200, FALSE, "", <<>>))
             /\ mcpTransports' = mcpTransports \cup {t}
             /\ UNCHANGED mcpSessions
    /\ UNCHANGED <<storeVars, gen, st, mcpApiKey>>

\* What POST /mcp replies before any tool runs: <<>> when the message is
\* handed to the transport.
McpPostRefusal(header, t) ==
    IF ~Authorized(header) THEN <<Unauthorized(header)>>
    ELSE IF t \notin mcpTransports
    THEN <<Resp(404, TRUE, "Session not found", <<>>)>>
    ELSE <<>>

\* The second SessionManager's saveSession up to its first await.  The
\* pending operation holds the session object: it is rewritten whenever the
\* object changes before fs.mkdir resolves.
bridgeSaveSessionStart(ops, session) ==
    {op \in ops : ~(op.kind = "mkdir" /\ op.sid = session.sessionId
                      /\ op.obj # <<>>)}
        \cup {IoOp("mkdir", session.sessionId, <<session>>, <<>>)}

BridgeSessionIdInputs ==
    {NoSessionId} \cup {<<sid>> : sid \in DOMAIN mcpSessions
                                            \cup DOMAIN sessions
                                            \cup {UnknownSessionId}}

\* POST /mcp carrying generate_questions
BridgeGenerateStart(headers) ==
    /\ gen.pc = "idle" /\ st.pc = "idle"
    /\ \E header \in headers, t \in TransportInputs,
          td \in TaskDescriptions,
          sessionId \in BridgeSessionIdInputs :
        LET arrived == [GenIdle EXCEPT !.via = "bridge", !.td = td,
                           !.header = header, !.sessionId = sessionId]
            refusal == McpPostRefusal(header, t)
        IN gen' = IF refusal # <<>>
                  THEN [arrived EXCEPT !.pc = "done",
                           !.resp = Reply(refusal[1].code, TRUE, <<>>, <<>>)]
                  ELSE IF sessionId # NoSessionId
                          /\ sessionId[1] \in DOMAIN mcpSessions
                  THEN [arrived EXCEPT !.pc = "done",
                           !.resp = GenerateOkReply("bridge",
                                        mcpSessions[sessionId[1]])]
                  ELSE [arrived EXCEPT !.pc = "bridge_await"]
    /\ UNCHANGED <<storeVars, st, httpVars>>

BridgeGenerateReturn ==
    /\ gen.pc = "bridge_await"
    /\ \E content \in SourceTexts, r \in Suffixes :
        LET sessionId == generateSessionId(r)
            session == NewSession(sessionId, gen.td, parseQuestions(content))
        IN /\ mcpSessions' = MapSet(mcpSessions, sessionId, session)
           /\ io' = bridgeSaveSessionStart(io, session)
           /\ origin' = MapSet(origin, sessionId, "bridge")
           /\ nCreated' = nCreated + 1
           /\ gen' = [gen EXCEPT !.pc = "done", !.source = "content",
                        !.resp = GenerateOkReply("bridge", session)]
    /\ UNCHANGED <<now, sessionTimeout, sessions, files, loadPc, loadLeft,
                   addResult, swept, nRestarts, preRestart,
                   saveFaults, env, parseCall, answeredAt, st, mcpApiKey,
                   req, mcpTransports>>

BridgeGenerateFail ==
    /\ gen.pc = "bridge_await"
    /\ gen' = [gen EXCEPT !.pc = "done", !.source = "failed",
                          !.resp = GenerateErrorReply("bridge")]
    /\ UNCHANGED <<storeVars, st, httpVars>>

\* POST /mcp carrying answer_question
BridgeAnswer(headers) ==
    /\ \E header \in headers, t \in TransportInputs,
          sessionId \in BridgeSessionIdInputs,
          questionId \in QuestionIdInputs, answer \in AnswerInputs :
        LET served(resp) == Served("answer", "bridge", header, sessionId,
                                   questionId, answer, resp)
            refusal == McpPostRefusal(header, t)
            key == StoreKey(sessionId)
        IN IF refusal # <<>>
           THEN /\ req' = served(refusal[1])
                /\ UNCHANGED <<mcpSessions, io>>
           ELSE IF key \notin DOMAIN mcpSessions
                   \/ ~QuestionFound(mcpSessions[key], questionId)
           THEN /\ req' = served(AnswerMissReply("bridge"))
                /\ UNCHANGED <<mcpSessions, io>>
           ELSE LET session == [mcpSessions[key] EXCEPT
                                   !.responses = MapSet(@, questionId, answer),
                                   !.lastUpdated = now]
                IN /\ mcpSessions' = [mcpSessions EXCEPT ![key] = session]
                   /\ io' = bridgeSaveSessionStart(io, session)
                   /\ req' = served(AnswerOkReply("bridge",
                                                  TaskContext(session)))
    /\ UNCHANGED <<now, sessionTimeout, sessions, files, loadPc, loadLeft,
                   addResult, swept, origin, nCreated, nRestarts, preRestart,
                   saveFaults, env, parseCall, answeredAt,
                   gen, st, mcpApiKey, mcpTransports>>

\* POST /mcp carrying get_context
BridgeContext(headers) ==
    /\ \E header \in headers, t \in TransportInputs,
          sessionId \in BridgeSessionIdInputs \ {NoSessionId} :
        LET refusal == McpPostRefusal(header, t)
            context == getTaskContext(mcpSessions, sessionId[1])
            resp == IF refusal # <<>> THEN refusal[1]
                    ELSE IF context = <<>>
                    THEN Resp(0, TRUE, "Session not found", <<>>)
                    ELSE Resp(0, FALSE, "",
                              <<ContextBody("bridge", context[1])>>)
        IN req' = Served("context", "bridge", header, sessionId, "", "", resp)
    /\ UNCHANGED <<storeVars, gen, st, mcpApiKey, bridgeVars>>

\* POST /mcp carrying list_sessions
BridgeListSessions(headers) ==
    /\ \E header \in headers, t \in TransportInputs :
        LET refusal == McpPostRefusal(header, t)
            all == getAllSessions(mcpSessions)
            resp == IF refusal # <<>> THEN refusal[1]
                    ELSE Resp(0, FALSE, "",
                              <<[totalSessions |-> Cardinality(all),
                                 sessions |-> {ListEntry("bridge", c) :
                                                  c \in all}]>>)
        IN req' = Served("sessions", "bridge", header, NoSessionId, "", "",
                         resp)
    /\ UNCHANGED <<storeVars, gen, st, mcpApiKey, bridgeVars>>

-----------------------------------------------------------------------------
(* Initial state: a process constructed over an empty sessions directory,  *)
(* loadSessions just started, no request in flight.                        *)

Init ==
    /\ now = 0
    /\ sessionTimeout \in Timeouts
    /\ sessions = EmptyMap
    /\ files = EmptyMap
    /\ io = {}
    /\ loadPc = "mkdir"
    /\ loadLeft = {}
    /\ addResult = <<>>
    /\ swept = {}
    /\ origin = EmptyMap
    /\ nCreated = 0
    /\ nRestarts = 0
    /\ preRestart = EmptyMap
    /\ saveFaults = NoFaults
    /\ env \in Environments
    /\ parseCall = NotParsed
    /\ answeredAt = EmptyMap
    /\ gen = GenIdle
    /\ st = StreamIdle
    /\ mcpApiKey \in Keys
    /\ req = ReqIdle
    /\ mcpTransports = {}
    /\ mcpSessions = EmptyMap

\* The bound on createSession calls.
CanCreate == nCreated < MaxCreates

\* The store as its callers see it: direct calls, the cleanup interval and
\* the clock, with start-up recovery over the empty directory.  File
\* operations are started and stay in flight.
NextStore ==
    \/ CanCreate /\ CreateSession(StoreQuestionLists)
    \/ AddResponse
    \/ Sweep
    \/ Tick
    \/ LoadMkdir
    \/ LoadReaddir

SpecStore == Init /\ [][NextStore]_vars

\* The store and its directory: one session is created, answered and swept
\* while its file operations complete in any order.
IoRoom == Cardinality(io) < MaxIo
NoneCreated == nCreated = 0

NextDisk ==
    \/ NoneCreated /\ IoRoom /\ CreateSession(DiskQuestionLists)
    \/ IoRoom /\ AddResponse
    \/ IoRoom /\ Sweep
    \/ Tick
    \/ \E op \in io : MkdirDone(op)
    \/ \E op \in io : WriteDone(op)
    \/ \E op \in io : UnlinkDone(op)
    \/ LoadMkdir
    \/ LoadReaddir
    \/ LoadRead

SpecDisk == Init /\ [][NextDisk]_vars

\* Persist and recover: a session is created and answered, the process is
\* restarted once its file operations have drained, and start-up recovery
\* runs to its end.
NextRecovery ==
    \/ nRestarts = 0 /\ NoneCreated /\ IoRoom
       /\ CreateSession(DiskQuestionLists)
    \/ nRestarts = 0 /\ IoRoom /\ AddResponse
    \/ nRestarts = 0 /\ Tick
    \/ \E op \in io : MkdirDone(op)
    \/ \E op \in io : WriteDone(op)
    \/ LoadMkdir
    \/ LoadReaddir
    \/ LoadRead
    \/ Restart

SpecRecovery == Init /\ [][NextRecovery]_vars

\* One request against a fresh store: a generate call on either transport
\* or a stream request, with the Question Source answering in every way.
NextApi ==
    \/ NoneCreated /\ GenerateStart("http", KeyHeader)
    \/ NoneCreated /\ GenerateStart("mcp", KeyHeader)
    \/ GenerateReturn
    \/ GenerateFail
    \/ NoneCreated /\ StreamStart(KeyHeader)
    \/ StreamChunk
    \/ StreamEnd
    \/ StreamFail
    \/ \E op \in io : MkdirDone(op)
    \/ \E op \in io : WriteDone(op)

SpecApi == Init /\ [][NextApi]_vars

\* Question lists of three and of five questions, for the progress replies.
AnswerQuestionLists ==
    { <<getFallbackQuestions[1], getFallbackQuestions[2],
        getFallbackQuestions[3]>>,
      getFallbackQuestions }

\* A store with one session, answered and queried over both transports by
\* clients that know the key.
NextAnswer ==
    \/ NoneCreated /\ CreateSession(AnswerQuestionLists)
    \/ CanServe /\ Answer("http", KeyHeader)
    \/ CanServe /\ Answer("mcp", KeyHeader)
    \/ CanServe /\ Context("http", KeyHeader)
    \/ CanServe /\ Context("mcp", KeyHeader)
    \/ CanServe /\ ListSessions("http", KeyHeader)
    \/ CanServe /\ ListSessions("mcp", KeyHeader)
    \/ Tick

SpecAnswer == Init /\ [][NextAnswer]_vars

\* Nothing was served yet but, possibly, the opening of a transport.
NoneServed == req.route \in {"none", "mcp_connect"}
Quiet == gen.pc = "idle" /\ st.pc = "idle"

\* Every route of the HTTP server called with every kind of Authorization
\* header, over a store that holds a session: either requests served
\* without suspension, or one that reaches for the Question Source.
NextAuth ==
    \/ NoneCreated /\ CreateSession(DiskQuestionLists)
    \/ CanServe /\ Quiet /\ Answer("http", Headers)
    \/ CanServe /\ Quiet /\ Context("http", Headers)
    \/ CanServe /\ Quiet /\ ListSessions("http", Headers)
    \/ CanServe /\ Quiet /\ Health(Headers)
    \/ CanServe /\ Quiet /\ McpConnect(Headers)
    \/ CanServe /\ Quiet /\ BridgeAnswer(Headers)
    \/ CanServe /\ Quiet /\ BridgeContext(Headers)
    \/ CanServe /\ Quiet /\ BridgeListSessions(Headers)
    \/ NoneServed /\ GenerateStart("http", Headers)
    \/ GenerateFail
    \/ NoneServed /\ BridgeGenerateStart(Headers)
    \/ BridgeGenerateFail
    \/ NoneServed /\ StreamStart(Headers)
    \/ StreamFail

SpecAuth == Init /\ [][NextAuth]_vars

\* A generate request on either transport against a store that may hold a
\* session already, whose id the request may carry.
NextReuse ==
    \/ NoneCreated /\ CreateSession(DiskQuestionLists)
    \/ Quiet /\ Tick
    \/ GenerateStart("http", KeyHeader)
    \/ GenerateStart("mcp", KeyHeader)
    \/ GenerateReturn
    \/ GenerateFail

SpecReuse == Init /\ [][NextReuse]_vars

\* HTTP mode with both surfaces in use: tool calls over /mcp next to the
\* /api routes, by clients that know the key.
NextBridge ==
    \/ CanServe /\ McpConnect(KeyHeader)
    \/ NoneCreated /\ BridgeGenerateStart(KeyHeader)
    \/ BridgeGenerateReturn
    \/ BridgeGenerateFail
    \/ CanServe /\ BridgeAnswer(KeyHeader)
    \/ CanServe /\ BridgeContext(KeyHeader)
    \/ CanServe /\ BridgeListSessions(KeyHeader)
    \/ CanServe /\ Answer("http", KeyHeader)
    \/ CanServe /\ Context("http", KeyHeader)
    \/ CanServe /\ ListSessions("http", KeyHeader)

SpecBridge == Init /\ [][NextBridge]_vars

\* A directory that holds a session file and a malformed file when the
\* process is started again.
NextLoad ==
    \/ nRestarts = 0 /\ NoneCreated /\ CreateSession(DiskQuestionLists)
    \/ \E op \in io : MkdirDone(op)
    \/ \E op \in io : WriteDone(op)
    \/ nRestarts = 0 /\ DropMalformedFile
    \/ LoadMkdir
    \/ LoadReaddir
    \/ LoadRead
    \/ Restart

SpecLoad == Init /\ [][NextLoad]_vars

\* A session generated over /api and then answered: the Question Source
\* answers in every way, the client answers with the ids it was given.
NextProgress ==
    \/ NoneCreated /\ GenerateStart("http", KeyHeader)
    \/ GenerateReturn
    \/ GenerateFail
    \/ CanServe /\ Answer("http", KeyHeader)

SpecProgress == Init /\ [][NextProgress]_vars

\* The flow of examples/test.sh against a server that has just started: a
\* session is generated over /api, answered and read back, while the file
\* operations of its saves and start-up recovery run to their end.
NextFresh ==
    \/ NoneCreated /\ GenerateStart("http", KeyHeader)
    \/ GenerateReturn
    \/ GenerateFail
    \/ \E op \in io : MkdirDone(op)
    \/ \E op \in io : WriteDone(op)
    \/ LoadMkdir
    \/ LoadReaddir
    \/ LoadRead
    \/ CanServe /\ Answer("http", KeyHeader)
    \/ CanServe /\ Context("http", KeyHeader)
    \/ CanServe /\ ListSessions("http", KeyHeader)

SpecFresh == Init /\ [][NextFresh]_vars

\* A session is created and answered while the file operations of its
\* saves complete or fail.
NextFail ==
    \/ NoneCreated /\ IoRoom /\ CreateSession(DiskQuestionLists)
    \/ IoRoom /\ AddResponse
    \/ \E op \in io : MkdirDone(op)
    \/ \E op \in io : WriteDone(op)
    \/ \E op \in io : MkdirFail(op)
    \/ \E op \in io : WriteFail(op)

SpecFail == Init /\ [][NextFail]_vars

\* The store and its files without start-up recovery and without failing
\* file operations: a session is created and answered while its saves
\* complete in any order.
NextWrites ==
    \/ NoneCreated /\ IoRoom /\ CreateSession(DiskQuestionLists)
    \/ IoRoom /\ AddResponse
    \/ Tick
    \/ \E op \in io : MkdirDone(op)
    \/ \E op \in io : WriteDone(op)

SpecWrites == Init /\ [][NextWrites]_vars

\* Room for one call of createSession more than the bound of the other
\* specifications: two calls, in the same millisecond or not.
CanCreateAgain == nCreated <= MaxCreates

\* The store alone: sessions are created and answered while the clock may
\* or may not advance between two calls.
NextIds ==
    \/ CanCreateAgain /\ CreateSession(StoreQuestionLists)
    \/ AddResponse
    \/ Tick

SpecIds == Init /\ [][NextIds]_vars

\* The parser called directly, twice, on every text up to the bound.
NextParse ==
    \/ ParseQuestions
    \/ ParseQuestionsAgain

SpecParse == Init /\ [][NextParse]_vars

\* One session is live and the clock has moved on since its creation.
OneCreatedEarlier ==
    /\ nCreated = 1
    /\ \E sid \in DOMAIN sessions : sessions[sid].createdAt < now

\* A store with a session and, later, a second one: answers, reads,
\* generate requests that name a session, the clock and the cleanup
\* interval, which can remove one session and keep the other.
NextFrame ==
    \/ NoneCreated /\ CreateSession(DiskQuestionLists)
    \/ OneCreatedEarlier /\ CreateSession(StoreQuestionLists)
    \/ Tick
    \/ Sweep
    \/ CanServe /\ Quiet /\ Answer("http", KeyHeader)
    \/ CanServe /\ Quiet /\ Context("http", KeyHeader)
    \/ CanServe /\ Quiet /\ ListSessions("http", KeyHeader)
    \/ NoneServed /\ GenerateStart("mcp", KeyHeader)
    \/ GenerateFail

SpecFrame == Init /\ [][NextFrame]_vars

-----------------------------------------------------------------------------
(* Claims about the session store *)

\* C1: every key of every live session's answer mapping is the id of a
\* question in that same session's question list.
C1_AnswerKeysAreQuestionIds ==
    \A sid \in DOMAIN sessions :
        DOMAIN sessions[sid].responses \subseteq QuestionIds(sessions[sid].questions)

\* C1 witness: a live session holds an answer and the last addResponse call,
\* made with a question id that is not in its list, was refused.
C1_Witness ==
    /\ \E sid \in DOMAIN sessions : DOMAIN sessions[sid].responses # {}
    /\ addResult = <<FALSE>>

\* C2: once a sweep has removed an expired session, the session is absent
\* from memory and, when no file operation for it is in flight any more, its
\* persisted file does not exist.
C2_SweptSessionLeavesNoFile ==
    \A sid \in swept :
        /\ sid \notin DOMAIN sessions
        /\ PendingFor(sid) = {} => FilePath(sid) \notin DOMAIN files

\* C3: a session that is queryable in memory has its file in the directory,
\* holding the session's record.
C3_FileWrittenWhenCreateReturns ==
    \A sid \in DOMAIN sessions :
        /\ FilePath(sid) \in DOMAIN files
        /\ files[FilePath(sid)].sessionId = sid
        /\ files[FilePath(sid)].taskDescription = sessions[sid].taskDescription
        /\ files[FilePath(sid)].questions = sessions[sid].questions

\* C4: after a restart that follows the completion of all writes, recovery
\* yields every session equal in all fields to the one before the restart.
C4_RestartRoundTrip ==
    (nRestarts > 0 /\ loadPc = "done") =>
        \A sid \in DOMAIN preRestart :
            /\ sid \in DOMAIN sessions
            /\ sessions[sid] = preRestart[sid]

-----------------------------------------------------------------------------
(* Claims about the request handlers *)

EventNames == [i \in DOMAIN st.events |-> st.events[i].event]
Terminal(name) == name \in {"complete", "error"}
QuestionEvents == {i \in DOMAIN st.events : st.events[i].event = "question"}
EndsWith(name) ==
    /\ st.pc = "done"
    /\ st.events # <<>>
    /\ st.events[Len(st.events)].event = name
StreamSessions == {sid \in DOMAIN sessions : origin[sid] = "stream"}

\* C5: a stream response to a request with a taskDescription is one start
\* event first, then question events only, then exactly one terminal event,
\* complete or error, which is the last thing written.
C5_StreamEventOrder ==
    /\ st.pc = "open" \/ (st.pc = "done" /\ st.code = 200) =>
        /\ st.events # <<>>
        /\ EventNames[1] = "start"
        /\ \A i \in 2..Len(st.events) : EventNames[i] # "start"
        /\ \A i \in 2..(Len(st.events) - 1) : EventNames[i] = "question"
    /\ st.pc = "open" =>
        \A i \in DOMAIN st.events : ~Terminal(EventNames[i])
    /\ st.pc = "done" /\ st.code = 200 =>
        /\ Len(st.events) >= 2
        /\ Terminal(EventNames[Len(st.events)])
        /\ Cardinality({i \in DOMAIN st.events : Terminal(EventNames[i])}) = 1

C5_Witness ==
    /\ EndsWith("complete")
    /\ Len(st.events) >= 4
    /\ st.text # <<>>
    /\ st.text[1] = Junk

\* C6: on the stream path a session exists exactly when the complete event
\* was written; while the stream is open no session is queryable, and a
\* stream ended by the error event leaves sessions and directory untouched.
C6_StreamSessionIffComplete ==
    /\ EndsWith("complete") <=> StreamSessions # {}
    /\ EndsWith("complete") =>
        /\ st.sessionId # <<>>
        /\ st.events[Len(st.events)].sessionId = st.sessionId
        /\ StreamSessions = {st.sessionId[1]}
    /\ st.pc = "open" => sessions = EmptyMap
    /\ EndsWith("error") =>
        /\ sessions = EmptyMap
        /\ files = EmptyMap
        /\ io = {}
        /\ st.sessionId = <<>>

C6_Witness ==
    /\ EndsWith("error")
    /\ Len(st.questions) >= 2
    /\ sessions = EmptyMap

\* C7: no two question events of one stream response carry the same id, and
\* the complete event's questionCount is the number of question events and
\* the length of the created session's question list.
C7_StreamQuestionsDistinctAndCounted ==
    /\ \A i, j \in QuestionEvents :
        i # j => st.events[i].data[1].id # st.events[j].data[1].id
    /\ EndsWith("complete") =>
        /\ st.events[Len(st.events)].count = Cardinality(QuestionEvents)
        /\ st.sessionId[1] \in DOMAIN sessions
        /\ st.events[Len(st.events)].count
             = Len(sessions[st.sessionId[1]].questions)

\* A stream whose final text repeats an id: the repeat was suppressed.
C7_Witness ==
    /\ EndsWith("complete")
    /\ LET final == parseQuestions(st.text)
       IN /\ Len(final) > Cardinality(QuestionEvents)
          /\ \E i, j \in DOMAIN final : i # j /\ final[i].id = final[j].id

\* C8: when the Question Source call fails, a generate request on either
\* transport still succeeds: it replies without an error and with a new
\* session that holds the five fallback questions.
C8_SourceFailureYieldsFallbackSession ==
    gen.pc = "done" /\ gen.source = "failed" =>
        /\ ~gen.resp.isError
        /\ gen.resp.sessionId # <<>>
        /\ gen.resp.sessionId[1] \in DOMAIN sessions
        /\ sessions[gen.resp.sessionId[1]].questions = getFallbackQuestions

\* C9: every session created by generate or by the stream endpoint has at
\* least one question.
C9_SessionHasAQuestion ==
    \A sid \in DOMAIN sessions :
        origin[sid] \in {"generate", "stream"} =>
            sessions[sid].questions # <<>>

\* C10: the question ids of a session created by generate or stream are
\* pairwise distinct.
C10_QuestionIdsDistinct ==
    \A sid \in DOMAIN sessions :
        origin[sid] \in {"generate", "stream"} =>
            \A i, j \in DOMAIN sessions[sid].questions :
                i # j => sessions[sid].questions[i].id
                           # sessions[sid].questions[j].id

\* C11: every question parseQuestions returns has a category of the closed
\* enumeration; an entry whose category is absent or outside it gets other.
C11_ParsedCategoriesInEnumeration ==
    /\ gen.pc = "done" /\ gen.source = "content" =>
        \A i \in DOMAIN gen.resp.questions :
            gen.resp.questions[i].category \in Categories
    /\ \A i \in DOMAIN st.questions : st.questions[i].category \in Categories

-----------------------------------------------------------------------------
(* Claims about answers, contexts and progress *)

\* The step serves an answer request that gets as far as addResponse.
AnswerCallsStore ==
    /\ req'.n = req.n + 1
    /\ req'.route = "answer"
    /\ \/ req'.via = "mcp"
       \/ /\ Authorized(req'.header)
          /\ req'.sessionId # NoSessionId
          /\ req'.questionId # ""
          /\ req'.answer # ""

CalledKey == StoreKey(req'.sessionId)
CalledWithForeignQuestion ==
    /\ CalledKey \in DOMAIN sessions
    /\ req'.questionId \notin QuestionIds(sessions[CalledKey].questions)
CalledWithUnknownSession == CalledKey \notin DOMAIN sessions

\* C12: addResponse with the id of a live session and a question id that is
\* not in its question list returns false and leaves the session as it was,
\* answers and lastUpdated included.
C12_ForeignQuestionLeavesSession ==
    [][AnswerCallsStore /\ CalledWithForeignQuestion =>
         /\ addResult' = <<FALSE>>
         /\ sessions' = sessions
         /\ io' = io]_vars

C12_Witness ==
    /\ req.route = "answer" /\ req.questionId = "zz"
    /\ req.resp.isError /\ req.resp.code \in {0, 404}
    /\ StoreKey(req.sessionId) \in DOMAIN sessions
    /\ DOMAIN sessions[StoreKey(req.sessionId)].responses # {}
    /\ sessions[StoreKey(req.sessionId)].lastUpdated < now
    /\ addResult = <<FALSE>>

\* C13: addResponse with a session id that is not in the store returns
\* false, adds no session and starts no file write: the live sessions and
\* the persisted files are unchanged.
C13_UnknownSessionLeavesStore ==
    [][AnswerCallsStore /\ CalledWithUnknownSession =>
         /\ addResult' = <<FALSE>>
         /\ sessions' = sessions
         /\ io' = io
         /\ files' = files]_vars

C13_Witness ==
    /\ req.route = "answer" /\ req.sessionId = <<UnknownSessionId>>
    /\ req.questionId = "q1" /\ req.answer # ""
    /\ req.resp.isError
    /\ sessions # EmptyMap
    /\ addResult = <<FALSE>>

\* C14: an answer request with an unknown session id or a foreign question
\* id gets an explicit error reply, HTTP 404 or an isError payload, never an
\* unhandled fault, and the server goes on serving requests.
C14_AnswerMissIsExplicitError ==
    [][AnswerCallsStore
         /\ (CalledWithUnknownSession \/ CalledWithForeignQuestion) =>
         /\ ~req'.resp.fault
         /\ req'.via = "http" => req'.resp.code = 404
         /\ req'.via = "mcp" => req'.resp.isError /\ req'.resp.code = 0
         /\ req'.resp.body = <<>>]_vars

\* An answer recorded after an answer request that missed.
C14_Witness ==
    /\ req.n >= 2 /\ req.misses >= 1
    /\ req.route = "answer"
    /\ ~req.resp.isError /\ req.resp.body # <<>>
    /\ addResult = <<TRUE>>

\* The percentages of the last HTTP reply, each with the counts of the live
\* session it reports on: <<percentage, answered, total>>.
ReportedPercentages ==
    IF req.via # "http" \/ req.resp.code # 200 THEN {}
    ELSE IF req.route \in {"answer", "context"}
    THEN LET session == sessions[StoreKey(req.sessionId)]
             progress == IF req.route = "answer"
                         THEN req.resp.body[1]
                         ELSE req.resp.body[1].progress
         IN {<<progress.percentage, Cardinality(DOMAIN session.responses),
               Len(session.questions)>>}
    ELSE IF req.route = "sessions"
    THEN {<<e.percentComplete,
            Cardinality(DOMAIN sessions[e.sessionId].responses),
            Len(sessions[e.sessionId].questions)>> :
                e \in req.resp.body[1].sessions}
    ELSE {}

\* p is 100 * answered / total rounded to the nearest integer, halves up
Nearest(p, answered, total) ==
    /\ 2 * p * total - total <= 200 * answered
    /\ 200 * answered < 2 * p * total + total

-----------------------------------------------------------------------------
(* Claims about authentication *)

\* The header is a Bearer credential equal to the configured key.
HoldsKey(header) ==
    /\ header # NoHeader
    /\ header[1] \in {"Bearer", "bearer"}
    /\ header[2] = mcpApiKey

\* The step serves a request to /mcp or under /api whose header does not
\* hold the key.
ServesWithoutKey ==
    \/ /\ req'.n = req.n + 1
       /\ req'.via \in {"http", "bridge"} /\ req'.route # "health"
       /\ ~HoldsKey(req'.header)
    \/ /\ gen.pc = "idle" /\ gen'.pc # "idle"
       /\ gen'.via \in {"http", "bridge"}
       /\ ~HoldsKey(gen'.header)
    \/ /\ st.pc = "idle" /\ st'.pc # "idle"
       /\ ~HoldsKey(st'.header)

-----------------------------------------------------------------------------
(* Claims about the two stores of HTTP mode and about session reuse *)

\* The step receives a well-formed generate request, over /api or as a tool
\* call, that names a live session.
GenerateNamesLiveSession ==
    /\ gen.pc = "idle" /\ gen'.pc # "idle"
    /\ gen'.via \in {"http", "mcp"}
    /\ gen'.via = "http" => HoldsKey(gen'.header) /\ gen'.td # ""
    /\ gen'.sessionId # NoSessionId
    /\ gen'.sessionId[1] \in DOMAIN sessions

\* C17: generate called with a sessionId that resolves to a live session
\* replies with that session's id and questions at once, without calling the
\* Question Source, and leaves the store as it was: no session created, no
\* timestamp changed, no file write started.
C17_GenerateReusesLiveSession ==
    [][GenerateNamesLiveSession =>
         /\ gen'.pc = "done" /\ gen'.source = "none"
         /\ ~gen'.resp.isError
         /\ gen'.resp.sessionId = gen'.sessionId
         /\ gen'.resp.questions = sessions[gen'.sessionId[1]].questions
         /\ UNCHANGED <<sessions, io, files, origin, nCreated>>]_vars

C17_Witness ==
    /\ gen.pc = "done" /\ gen.source = "none" /\ ~gen.resp.isError
    /\ gen.sessionId # NoSessionId
    /\ gen.sessionId[1] \in DOMAIN sessions
    /\ gen.resp.sessionId = gen.sessionId
    /\ sessions[gen.sessionId[1]].lastUpdated < now
    /\ nCreated = 1

\* C18: in HTTP mode the tool bridge and the /api routes work on one store:
\* a session created by generate_questions over /mcp is returned by
\* GET /api/context/:sessionId and listed by GET /api/sessions, and the two
\* surfaces see the same answers.
C18_BridgeSharesTheStore ==
    /\ \A sid \in DOMAIN mcpSessions :
          origin[sid] = "bridge" /\ gen.pc = "done" =>
              sid \in DOMAIN sessions /\ sessions[sid] = mcpSessions[sid]
    /\ req.via = "http" /\ req.route = "context" /\ req.resp.code # 401
         /\ req.sessionId[1] \in DOMAIN mcpSessions
           => req.resp.code = 200
    /\ req.via = "http" /\ req.route = "sessions" /\ req.resp.code = 200
           => \A sid \in DOMAIN mcpSessions :
                 \E e \in req.resp.body[1].sessions : e.sessionId = sid

\* C19: once loadSessions has finished, every well-formed session file that
\* was in the directory at startup has its session in memory, whatever else
\* the directory holds.
C19_LoadKeepsWellFormedFiles ==
    nRestarts > 0 /\ loadPc = "done" =>
        \A f \in DOMAIN files :
            Parses(files[f]) => files[f].sessionId \in DOMAIN sessions

-----------------------------------------------------------------------------
(* Claims about progress, repeated answers and timestamps *)

\* Every question of the session has been answered successfully.
EachQuestionAnswered(sid) ==
    \A i \in DOMAIN sessions[sid].questions :
        <<sid, sessions[sid].questions[i].id>> \in req.answered

\* C21: for a session created by generate or stream, once each of its
\* questions has been answered successfully the answered count equals the
\* total and POST /api/answer reports complete = true; while a question is
\* unanswered it reports complete = false.
C21_CompleteIffAllAnswered ==
    req.route = "answer" /\ req.via = "http" /\ req.resp.code = 200 =>
        LET sid == StoreKey(req.sessionId)
            progress == req.resp.body[1]
        IN sid \in DOMAIN sessions /\ origin[sid] \in {"generate", "stream"} =>
              /\ progress.complete <=> EachQuestionAnswered(sid)
              /\ EachQuestionAnswered(sid) =>
                    progress.answered = progress.total

\* The session the generate request created, and the first question id of
\* its reply.
Generated == gen.resp.sessionId[1]
FirstAnswered ==
    /\ gen.pc = "done" /\ gen.source = "content"
    /\ gen.resp.questions # <<>>
    /\ Generated \notin swept
    /\ req.answered = {<<Generated, gen.resp.questions[1].id>>}

\* C22: for a freshly generated session S with N questions that was not
\* swept, after one successful answer to its first question id: the answer
\* response reports 1 answered of N, the context of S holds exactly that one
\* answer, and the session listing has exactly one entry for S, with
\* questionsTotal = N and questionsAnswered = 1.
C22_FirstAnswerIsReported ==
    FirstAnswered /\ req.via = "http" =>
        LET N == Len(gen.resp.questions)
            first == gen.resp.questions[1].id
        IN /\ req.route = "answer" /\ req.resp.code = 200 =>
                /\ req.resp.body[1].answered = 1
                /\ req.resp.body[1].total = N
           /\ req.route = "context" /\ req.sessionId = <<Generated>> =>
                /\ req.resp.code = 200
                /\ {p[1] : p \in req.resp.body[1].context.responses} = {first}
                /\ Cardinality(req.resp.body[1].context.responses) = 1
           /\ req.route = "sessions" =>
                /\ req.resp.code = 200
                /\ \E e \in req.resp.body[1].sessions :
                      /\ e.sessionId = Generated
                      /\ e.questionsTotal = N
                      /\ e.questionsAnswered = 1
                /\ Cardinality({e \in req.resp.body[1].sessions :
                                  e.sessionId = Generated}) = 1

\* C23: the summary of get_context has one question/answer entry for each
\* answered question of the session and none for an unanswered one, so the
\* number of entries is the answered count of the progress string, for every
\* answer text answer_question accepted.
C23_SummaryListsEveryAnswer ==
    req.route = "context" /\ req.via = "mcp" /\ ~req.resp.isError =>
        LET body == req.resp.body[1]
            answeredIds == {p[1] : p \in body.context.responses}
        IN /\ Len(body.summary.entries) = body.progress.answered
           /\ \A i \in DOMAIN body.context.questions :
                 body.context.questions[i].id \in answeredIds
                   <=> \E k \in DOMAIN body.summary.entries :
                          body.summary.entries[k].question
                            = body.context.questions[i].text

\* C24: answering a question id of a session that already has an answer
\* leaves exactly one entry for that id, whose value is the later answer;
\* the other entries stay and the answered count is what it was.
C24_RepeatedAnswerOverwrites ==
    [][AnswerCallsStore /\ CalledKey \in DOMAIN sessions
         /\ req'.questionId \in DOMAIN sessions[CalledKey].responses =>
         LET before == sessions[CalledKey].responses
             after == sessions'[CalledKey].responses
         IN /\ addResult' = <<TRUE>>
            /\ DOMAIN after = DOMAIN before
            /\ after[req'.questionId] = req'.answer
            /\ \A q \in DOMAIN before \ {req'.questionId} : after[q] = before[q]
            /\ req'.resp.body[1].answered = Cardinality(DOMAIN before)]_vars

\* A second answer that differs from the first has replaced it.
C24_Witness ==
    /\ req.route = "answer" /\ ~req.resp.isError
    /\ req.prior # <<>> /\ req.prior[1] # req.answer
    /\ StoreKey(req.sessionId) \in DOMAIN sessions
    /\ sessions[StoreKey(req.sessionId)].responses
         = MapSet(EmptyMap, req.questionId, req.answer)
    /\ req.resp.body[1].answered = 1

\* C25: when the directory creation or the file write inside saveSession
\* fails, createSession has returned the session and addResponse has
\* returned true, the in-memory session keeps the change, and no exception or
\* rejected promise reaches the caller or the process.
C25_SaveFailureIsSwallowed ==
    /\ [](saveFaults.unhandled = 0)
    /\ [][saveFaults'.failed > saveFaults.failed =>
            UNCHANGED <<sessions, addResult, origin, nCreated>>]_vars

\* An answer that addResponse accepted, held in memory, whose save failed:
\* the directory has no file with it.
C25_Witness ==
    /\ saveFaults.failed >= 1 /\ io = {}
    /\ addResult = <<TRUE>>
    /\ \E sid \in DOMAIN sessions :
          /\ DOMAIN sessions[sid].responses # {}
          /\ FilePath(sid) \in DOMAIN files =>
                files[FilePath(sid)] # Serialize(sessions[sid])

\* C26: for every live session, under a clock that does not go back:
\* createdAt never changes, lastUpdated never decreases, createdAt is at most
\* lastUpdated, and an addResponse that records an answer (a change of the
\* answers that is not recovery's) sets lastUpdated to the current time.
C26_TimestampsMonotonic ==
    /\ [](\A sid \in DOMAIN sessions :
             sessions[sid].createdAt <= sessions[sid].lastUpdated)
    /\ [][\A sid \in DOMAIN sessions \cap DOMAIN sessions' :
             /\ sessions'[sid].createdAt = sessions[sid].createdAt
             /\ sessions'[sid].lastUpdated >= sessions[sid].lastUpdated
             /\ sessions'[sid].responses # sessions[sid].responses
                  /\ loadLeft' = loadLeft =>
                   sessions'[sid].lastUpdated = now]_vars

-----------------------------------------------------------------------------
(* Claims about what the store operations leave alone *)

\* C27: after createSession, no operation on the store (an answer, a read,
\* a generate request that names the session, a sweep that keeps it) adds,
\* removes, reorders or changes a question of a session while it is live.
C27_QuestionsAreFrozen ==
    [][nCreated' = nCreated =>
         \A sid \in DOMAIN sessions \cap DOMAIN sessions' :
             sessions'[sid].questions = sessions[sid].questions]_vars

\* A session of two questions that holds an answer and was kept by the
\* sweep that removed the older session.
C27_Witness ==
    /\ swept # {}
    /\ req.route = "answer" /\ ~req.resp.isError
    /\ StoreKey(req.sessionId) \in DOMAIN sessions
    /\ LET session == sessions[StoreKey(req.sessionId)]
       IN /\ Len(session.questions) = 2
          /\ DOMAIN session.responses # {}
          /\ \A sid \in swept : sid[1] < session.createdAt

\* The step serves a read: a context request, a session list, or a
\* generate request answered from getSession.
ReadStep ==
    \/ req'.n = req.n + 1 /\ req'.route \in {"context", "sessions"}
    \/ gen.pc = "idle" /\ gen'.pc = "done" /\ gen'.source = "none"

\* C28: getSession, getTaskContext and getAllSessions change neither the
\* sessions in memory nor a persisted file nor a lastUpdated, so a read never
\* postpones a session's expiry.
C28_ReadsArePure ==
    [][ReadStep =>
         /\ UNCHANGED <<sessions, files, io, swept>>
         /\ \A sid \in DOMAIN sessions :
               Expired(sessions[sid]) => /\ sid \in DOMAIN sessions'
                                         /\ Expired(sessions'[sid])]_vars

\* A session read after its last answer, then removed by the sweep when its
\* time since that answer had run out.
C28_Witness ==
    /\ req.route = "context" /\ req.resp.code = 200
    /\ req.sessionId[1] \in swept
    /\ req.resp.body[1].context.lastUpdated = toISOString(0)
    /\ req.n = 2 /\ req.answered = {}
    /\ sessions # EmptyMap

-----------------------------------------------------------------------------
(* Claims about rejected requests *)

\* The step serves a request that passed the middleware and lacks a
\* required input: POST /api/answer without sessionId, questionId or answer,
\* POST /api/generate or GET /api/stream without taskDescription.
AnswerLacksInput ==
    /\ req'.n = req.n + 1 /\ req'.route = "answer" /\ req'.via = "http"
    /\ Authorized(req'.header)
    /\ (req'.sessionId = NoSessionId \/ req'.questionId = ""
          \/ req'.answer = "")
GenerateLacksInput ==
    /\ gen.pc = "idle" /\ gen'.pc # "idle" /\ gen'.via = "http"
    /\ Authorized(gen'.header) /\ gen'.td = ""
StreamLacksInput ==
    /\ st.pc = "idle" /\ st'.pc # "idle"
    /\ Authorized(st'.header) /\ st'.td = ""

\* No call of the Question Source is started by the step.
NoSourceCall ==
    /\ gen'.pc = "await" => gen.pc = "await"
    /\ st'.pc = "open" => st.pc = "open"

\* C29: POST /api/generate without taskDescription, GET /api/stream without
\* taskDescription and POST /api/answer without sessionId, questionId or
\* answer, once past the authentication middleware, are answered with 400,
\* leave the session store and its files unchanged and start no call of the
\* Question Source.
C29_MissingInputIsRejected ==
    [][/\ AnswerLacksInput =>
            /\ req'.resp.code = 400 /\ req'.resp.isError
            /\ UNCHANGED <<storeVars, mcpSessions>> /\ NoSourceCall
       /\ GenerateLacksInput =>
            /\ gen'.pc = "done" /\ gen'.resp.code = 400 /\ gen'.resp.isError
            /\ gen'.source = "none"
            /\ UNCHANGED <<storeVars, mcpSessions>> /\ NoSourceCall
       /\ StreamLacksInput =>
            /\ st'.pc = "done" /\ st'.code = 400 /\ st'.events = <<>>
            /\ UNCHANGED <<storeVars, mcpSessions>> /\ NoSourceCall]_vars

\* An answer request that names a live session and one of its questions
\* but carries no answer was refused with 400.
C29_Witness ==
    /\ req.route = "answer" /\ req.via = "http" /\ Authorized(req.header)
    /\ req.resp.code = 400
    /\ req.answer = "" /\ req.sessionId # NoSessionId
    /\ req.sessionId[1] \in DOMAIN sessions
    /\ \E i \in DOMAIN sessions[req.sessionId[1]].questions :
          sessions[req.sessionId[1]].questions[i].id = req.questionId
    /\ DOMAIN sessions[req.sessionId[1]].responses = {}

\* A generate request and a stream request without taskDescription were
\* refused while the store held a session.
C29_GenerateRefused ==
    /\ gen.pc = "done" /\ gen.via = "http" /\ gen.resp.code = 400
    /\ sessions # EmptyMap
C29_StreamRefused ==
    /\ st.pc = "done" /\ st.code = 400 /\ sessions # EmptyMap

-----------------------------------------------------------------------------
(* Claims about the configured timeout *)

\* C30: the threshold the sweep applies is the configured timeout: with
\* SESSION_TIMEOUT_MS set to T, the sweep removes a session only when it has
\* been idle for more than T, and every session idle for more than T is gone
\* after a sweep.
C30_SweepAppliesConfiguredTimeout ==
    [][/\ \A sid \in DOMAIN sessions :
            sid \in swept' \ swept =>
                now - sessions[sid].lastUpdated > env.SESSION_TIMEOUT_MS
       /\ swept' # swept =>
            \A sid \in DOMAIN sessions' :
                ~(now - sessions'[sid].lastUpdated > env.SESSION_TIMEOUT_MS)]_vars

-----------------------------------------------------------------------------
(* Claims about the extraction of questions from the source's text *)

\* The questions carried by the question events, in the order written.
DeliveredQuestions ==
    LET idx == SelectSeq([i \in 1..Len(st.events) |-> i],
                         LAMBDA i : st.events[i].event = "question")
    IN [k \in 1..Len(idx) |-> st.events[idx[k]].data[1]]

\* C31: when a stream completes, the question list of the created session
\* and the questions delivered as question events are the list decoded from
\* the complete final text; questions yielded from partial buffers neither
\* displace nor add to it.
C31_StreamSessionIsFinalDecode ==
    EndsWith("complete") =>
        /\ sessions[st.sessionId[1]].questions = parseQuestions(st.text)
        /\ Range(DeliveredQuestions) = Range(parseQuestions(st.text))

\* The text holds a complete well-formed envelope: the span from its first
\* opening brace to its last closing brace decodes to an object with an
\* array field questions.
Decodable(text) ==
    /\ JsonMatch(text) # <<>>
    /\ JsonParse(JsonMatch(text)[1]).ok
    /\ JsonParse(JsonMatch(text)[1]).questions # <<>>

\* C32: as long as no cumulative buffer of an open stream held a decodable
\* envelope, streamQuestions has yielded nothing: no question was collected
\* and no question event written.
C32_NothingYieldedBeforeAnEnvelope ==
    /\ st.pc = "open"
    /\ \A k \in 0..Len(st.text) : ~Decodable(SubSeq(st.text, 1, k))
    => st.questions = <<>> /\ QuestionEvents = {}

\* The envelopes a text holds: <<i, j>> when the text has the opening of an
\* envelope at i, its closing at j and nothing but complete question objects
\* between the two.
Envelopes(text) ==
    {p \in (1..Len(text)) \X (1..Len(text)) :
        /\ p[1] < p[2]
        /\ text[p[1]].t = "open" /\ text[p[2]].t = "close"
        /\ \A k \in (p[1] + 1)..(p[2] - 1) : text[k].t = "obj"}

\* C33: parseQuestions on a text that holds no well-formed envelope (no
\* brace, a truncated or malformed envelope, or an object without a
\* questions array) returns exactly the five fallback questions q1..q5 with
\* the categories tech_stack, architecture, deployment, features, scope, and
\* returns the same list when called again.
C33_FallbackWithoutEnvelope ==
    parseCall.calls >= 1 /\ Envelopes(parseCall.jsonText) = {} =>
        /\ parseCall.questions = getFallbackQuestions
        /\ [i \in 1..Len(parseCall.questions) |-> parseCall.questions[i].id]
             = <<"q1", "q2", "q3", "q4", "q5">>
        /\ [i \in 1..Len(parseCall.questions) |->
               parseCall.questions[i].category]
             = <<"tech_stack", "architecture", "deployment", "features",
                 "scope">>
        /\ parseCall.before # <<>> => parseCall.before[1] = parseCall.questions

\* A truncated envelope (opened, one question object, never closed) parsed
\* twice.
C33_Witness ==
    /\ parseCall.calls = 2
    /\ Len(parseCall.jsonText) = 2
    /\ parseCall.jsonText[1].t = "open" /\ parseCall.jsonText[2].t = "obj"
    /\ parseCall.questions = getFallbackQuestions

\* The id the i-th entry of an envelope must get: its own, or q<i>.
ExpectedId(entry, i) ==
    IF entry.id = <<>> \/ entry.id = <<"">> THEN "q" \o ToString(i)
    ELSE entry.id[1]

\* The text holds exactly one envelope, and the envelope starts at the
\* first opening brace of the text.
HoldsOneEnvelope(text) ==
    /\ Cardinality(Envelopes(text)) = 1
    /\ \A p \in Envelopes(text) :
          \A k \in 1..(p[1] - 1) : text[k].t \notin {"open", "obj"}

\* C34: parseQuestions on a text that holds exactly one well-formed envelope
\* with N question objects returns N questions in the order of the entries,
\* the i-th with the entry's own id or with q<i> when that id is absent or
\* empty.
C34_EnvelopeDecodedInOrder ==
    parseCall.calls >= 1 /\ HoldsOneEnvelope(parseCall.jsonText) =>
        LET p == CHOOSE p \in Envelopes(parseCall.jsonText) : TRUE
            entries == SubSeq(parseCall.jsonText, p[1] + 1, p[2] - 1)
        IN /\ Len(parseCall.questions) = Len(entries)
           /\ \A i \in 1..Len(entries) :
                /\ parseCall.questions[i].id = ExpectedId(entries[i], i)
                /\ <<parseCall.questions[i].text>> = entries[i].text

-----------------------------------------------------------------------------
(* Claims about session identifiers *)

\* C35: createSession never replaces a live session: the id it generates is
\* the id of no live session, so every call adds exactly one session to the
\* store and leaves the others as they were, also when two calls fall into
\* the same millisecond.
C35_CreateNeverReplaces ==
    [][nCreated' = nCreated + 1 =>
         /\ Cardinality(DOMAIN sessions') = Cardinality(DOMAIN sessions) + 1
         /\ \A sid \in DOMAIN sessions :
               sid \in DOMAIN sessions' /\ sessions'[sid] = sessions[sid]]_vars

-----------------------------------------------------------------------------
(* Claims about concurrent file operations and start-up recovery *)

\* C36: for every live session, once every file write started for it by
\* createSession and addResponse has completed, its file holds the session
\* as it is in memory, with every recorded answer and the latest
\* lastUpdated, whatever the order in which the writes completed.
C36_FileIsCurrentWhenWritesAreDone ==
    \A sid \in DOMAIN sessions :
        PendingFor(sid) = {} =>
            /\ FilePath(sid) \in DOMAIN files
            /\ files[FilePath(sid)] = Serialize(sessions[sid])

\* C37: what was created and answered through the store while loadSessions
\* is still running is never lost or reverted: an iteration of its loop
\* leaves every live session in the map as it was.
C37_RecoveryKeepsLiveSessions ==
    [][loadPc = "read" /\ loadLeft' # loadLeft =>
         \A sid \in DOMAIN sessions :
             sid \in DOMAIN sessions' /\ sessions'[sid] = sessions[sid]]_vars

-----------------------------------------------------------------------------
(* Claims about the sweep *)

\* C38: a sweep removes only sessions whose lastUpdated is more than the
\* timeout in the past; a session created, or last answered with success,
\* at most the timeout ago is not removed, so it stays queryable for at
\* least the timeout after addResponse returned true.
C38_SweepOnlyAfterTimeout ==
    [][\A sid \in DOMAIN sessions :
          sid \in swept' \ swept =>
              /\ now - sessions[sid].lastUpdated > sessionTimeout
              /\ now - sessions[sid].createdAt > sessionTimeout
              /\ sid \in DOMAIN answeredAt =>
                    now - answeredAt[sid] > sessionTimeout]_vars

-----------------------------------------------------------------------------
(* Claims about the two transports *)

\* What answer_question does with the arguments of the request served by
\* the step, in the store the step starts from: whether it succeeds, and the
\* sessions it leaves.
ToolSucceeds ==
    /\ CalledKey \in DOMAIN sessions
    /\ req'.questionId \in QuestionIds(sessions[CalledKey].questions)
ToolSessions ==
    IF ToolSucceeds
    THEN [sessions EXCEPT ![CalledKey] =
            [@ EXCEPT !.responses = MapSet(@, req'.questionId, req'.answer),
                      !.lastUpdated = now]]
    ELSE sessions

\* C39: from the same store and with the same sessionId, questionId and
\* answer, an empty answer included, POST /api/answer and answer_question
\* agree on success or failure and leave the same sessions: each of them
\* succeeds exactly when, and changes the store exactly as, the tool does.
C39_TransportsAgreeOnAnswer ==
    [][/\ req'.n = req.n + 1
       /\ req'.route = "answer"
       /\ req'.via \in {"http", "mcp"}
       => /\ ~req'.resp.isError <=> ToolSucceeds
          /\ sessions' = ToolSessions]_vars

=============================================================================
